---- MODULE Spec2Model ----
(***************************************************************************)
(* Deployment job orchestration core of Org-Magic-Agent.                   *)
(*                                                                         *)
(*   - bulk record ingestion: data_utils.py                                *)
(*       deploy_csv_records / deploy_csv_data                              *)
(*         -> _deploy_csv_records_internal                                 *)
(*   - metadata deployment: org_utils.py                                   *)
(*       deploy_metadata -> deploy_metadata_xml                            *)
(*                                                                         *)
(* The process is single-threaded: pc is the position of the one running   *)
(* pipeline call.  The remote platform is the environment: every response  *)
(* it can give is a nondeterministic choice inside the step that issues    *)
(* the request.                                                            *)
(***************************************************************************)
EXTENDS Integers, Sequences, FiniteSets, TLC

VARIABLES
    pc,            \* position of the running call
    entry,         \* entry point of the call
    records,       \* list of record dicts handed to _deploy_csv_records_internal
    all_results,   \* the all_results dict of _deploy_csv_records_internal
    csv_content,   \* CSV body built for the upload
    elapsed_time,  \* elapsed_time of the ingest polling loop
    state,         \* job state read by the last ingest status poll
    reqlog,        \* remote requests issued by the ingest call, in order
    sleeps,        \* number of time.sleep calls of the ingest call
    success_content, \* body of the successfulResults response, if one was read
    failed_content,  \* body of the failedResults response, if one was read
    exc,           \* exception that left the running call, "none" if none
    ret,           \* kind of value returned to the caller of the entry point
    d_resp,        \* last deployResult read by the deploy polling loop
    d_posts,       \* deploy POST requests issued
    d_polls,       \* deploy status GET requests issued (saturating)
    d_slept,       \* seconds slept by the deploy polling loop (saturating)
    d_result,      \* value returned by deploy_metadata_xml
    d_doc,         \* metadata document handed to the deploy call
    d_post,        \* response of the deploy POST
    d_sent,        \* deploy POST requests as sent, in order
    d_report,      \* content of the message returned by deploy_metadata
    d_map,         \* table read from metadata_map.yml by the deploy call
    d_archive,     \* entries of the zip built by the deploy call
    package_xml,   \* the <types> block of the package.xml of the deploy call
    map_loads,     \* reads of metadata_map.yml by this process
    input,         \* input of a run examined on its own, NoInput otherwise
    store,         \* org_details kept in the SimpleStore of org_connection
    now,           \* time.time(), in seconds since the process started
    jwt_access_token,        \* JWTTokenManager._access_token
    jwt_access_token_expiry, \* JWTTokenManager._access_token_expiry
    jwt_response,  \* answer to the last token request of get_jwt_token
    jwt_ret,       \* outcome of the last get_jwt_token call
    conversation_messages,   \* the global conversation history of bot.py
    handlers,      \* the respond_message call of each Slack message event
    b_reqs,        \* remote requests issued by bulk_upload_accounts, in order
    b_result       \* dict returned by bulk_upload_accounts

vars == <<pc, entry, records, all_results, csv_content, elapsed_time, state,
          reqlog, sleeps, success_content, failed_content, exc, ret,
          d_resp, d_posts, d_polls, d_slept, d_result, d_doc, d_post, d_report,
          d_sent, d_map, d_archive, package_xml, map_loads, input, store,
          now, jwt_access_token, jwt_access_token_expiry, jwt_response, jwt_ret,
          conversation_messages, handlers, b_reqs, b_result>>

fetchVars == <<success_content, failed_content>>
ingestVars == <<records, all_results, csv_content, elapsed_time, state,
                reqlog, sleeps, fetchVars>>
packVars == <<d_doc, d_map, d_archive, package_xml>>
deployVars == <<d_resp, d_posts, d_polls, d_slept, d_result, d_post, d_sent,
                d_report, packVars>>
envVars == <<input, store>>
jwtVars == <<now, jwt_access_token, jwt_access_token_expiry, jwt_response, jwt_ret>>
botVars == <<conversation_messages, handlers>>
otherVars == <<jwtVars, botVars>>
procVars == <<map_loads, envVars, otherVars>>
bulkVars == <<b_reqs, b_result>>

(***************************************************************************)
(* Bounds of the model.                                                    *)
(***************************************************************************)
MaxRows == 2          \* data rows of the CSV given to an entry point
MaxResultRows == 2    \* data rows of a successfulResults / failedResults CSV
DeployPollCap == 102  \* deploy status polls counted before the counter saturates
MaxFailures == 2      \* elements of details.componentFailures of a deployResult
MaxLoads == 2         \* reads of metadata_map.yml counted over successive deploy calls

(***************************************************************************)
(* Program constants.                                                      *)
(***************************************************************************)
max_wait_time == 300
poll_interval == 3
deploy_sleep == 3

Absent == "<absent>"
NoValue == "<none>"

Range(s) == {s[i] : i \in DOMAIN s}

SeqsUpTo(S, n) == UNION {[1..k -> S] : k \in 0..n}

Min(a, b) == IF a < b THEN a ELSE b

(***************************************************************************)
(* CSV input of the entry points.                                          *)
(***************************************************************************)
FieldOrder == <<"Name", "Phone">>
Fields == Range(FieldOrder)
CellValues == {"", " ", "Acme"}

\* rows as csv.DictReader yields them: every header field has a value
CsvRows == [Fields -> CellValues]

\* str.strip on the cell values of the model
Strip(v) == IF v = " " THEN "" ELSE v

\* variant: only the empty string is dropped
CleanRecord_KeepBlank(row) ==
    LET keep == {k \in Fields : row[k] # ""}
    IN  [k \in keep |-> row[k]]

\* {k: v for k, v in row.items() if v and v.strip()}
CleanRecord(row) ==
    LET keep == {k \in Fields : row[k] # "" /\ Strip(row[k]) # ""}
    IN  [k \in keep |-> row[k]]

\* the records list built by the parsing loop: empty records are not appended
RECURSIVE ParseRows(_)
ParseRows(rows) ==
    IF rows = <<>> THEN <<>>
    ELSE LET record == CleanRecord(Head(rows))
         IN  IF DOMAIN record # {}
             THEN <<record>> \o ParseRows(Tail(rows))
             ELSE ParseRows(Tail(rows))

\* list(records[0].keys()): the keys of the first record, in header order
RECURSIVE KeysInOrder(_, _)
KeysInOrder(record, order) ==
    IF order = <<>> THEN <<>>
    ELSE IF Head(order) \in DOMAIN record
         THEN <<Head(order)>> \o KeysInOrder(record, Tail(order))
         ELSE KeysInOrder(record, Tail(order))

\* csv.DictWriter (extrasaction='raise'): a record with a key outside
\* fieldnames makes writerows raise ValueError
WriterRaises(recs, fieldnames) ==
    \E i \in DOMAIN recs : DOMAIN recs[i] \ Range(fieldnames) # {}

\* csv.DictWriter output: header row, then one row per record, a missing
\* key written as the empty string (restval)
WriteCsv(recs, fieldnames) ==
    [header |-> fieldnames,
     rows   |-> [i \in DOMAIN recs |->
                   [j \in DOMAIN fieldnames |->
                      IF fieldnames[j] \in DOMAIN recs[i]
                      THEN recs[i][fieldnames[j]] ELSE ""]]]

NoCsv == [header |-> <<>>, rows |-> <<>>]

(***************************************************************************)
(* The all_results dict.                                                   *)
(***************************************************************************)
\* the errors list holds the bare message "No records provided"
NoRecordsResult ==
    [success |-> FALSE, total_records |-> 0, successful |-> 0, failed |-> 0,
     errors |-> <<[step |-> Absent, record |-> Absent,
                   error |-> <<"No records provided">>]>>,
     created_ids |-> <<>>]

\* variant: the failed count starts at the number of submitted records
InitialResults_AllFailed(recs) ==
    [success |-> TRUE, total_records |-> Len(recs), successful |-> 0,
     failed |-> Len(recs), errors |-> <<>>, created_ids |-> <<>>]

InitialResults(recs) ==
    [success |-> TRUE, total_records |-> Len(recs), successful |-> 0,
     failed |-> 0, errors |-> <<>>, created_ids |-> <<>>]

NoResults ==
    [success |-> FALSE, total_records |-> 0, successful |-> 0, failed |-> 0,
     errors |-> <<>>, created_ids |-> <<>>]

\* a requests.exceptions.RequestException: a transport error has no
\* response, an HTTP error status carries the response text
RequestErrors ==
    {[kind |-> "ConnectionError", text |-> Absent],
     [kind |-> "HTTPError", text |-> "body"]}

\* error_msg = f"<prefix>{str(e)}" [+ f" - Response: {e.response.text}"]
StepErrorMsg(prefix, e) ==
    IF e.text # Absent
    THEN <<prefix, e.kind, " - Response: ", e.text>>
    ELSE <<prefix, e.kind>>

StepError(step, msg) == [step |-> step, record |-> Absent, error |-> msg]

\* variant: the error is recorded and the success flag is left alone
FailWith_KeepSuccess(res, err) == [res EXCEPT !.errors = Append(@, err)]

\* all_results["success"] = False; all_results["errors"].append({...})
FailWith(res, err) ==
    [res EXCEPT !.success = FALSE, !.errors = Append(@, err)]

CreateJobError(e) == StepError("create_job", StepErrorMsg("Failed to create bulk job: ", e))
\* variant: the upload failure carries the tag of the create step
UploadError_WrongTag(e) == StepError("create_job", StepErrorMsg("Failed to upload CSV data: ", e))
UploadError(e) == StepError("upload_data", StepErrorMsg("Failed to upload CSV data: ", e))
CloseJobError(e) == StepError("close_job", StepErrorMsg("Failed to close job: ", e))
\* variant: a poll error is reported like a failed remote job
PollError_AsJobFailure(e) == StepError("job_processing", <<"Error polling job status: ", e.kind>>)
PollError(e) == StepError("poll_status", <<"Error polling job status: ", e.kind>>)
\* variant: the timeout is reported like a failed remote job
TimeoutError_AsJobFailure == StepError("job_processing", <<"Job ", "failed", ": ", "Unknown error">>)
TimeoutError == StepError("poll_status", <<"Job did not complete within the maximum wait time">>)

\* state.lower()
Lower(s) == IF s = "Failed" THEN "failed" ELSE IF s = "Aborted" THEN "aborted" ELSE s

\* f"Job {state.lower()}: {job_status.get('errorMessage', 'Unknown error')}"
JobProcessingError(s, errorMessage) ==
    StepError("job_processing", <<"Job ", Lower(s), ": ", errorMessage>>)

(***************************************************************************)
(* Remote requests of the ingest call.                                     *)
(***************************************************************************)
\* variant: the close request carries no state
StateWritten_Never(kind) == Absent

\* the job state a request asks the platform to set: close_payload =
\* {"state": "UploadComplete"} of the close PATCH, no other request has one
StateWritten(kind) == IF kind = "close" THEN "UploadComplete" ELSE Absent

Req(kind, ok) == [kind |-> kind, ok |-> ok, sets_state |-> StateWritten(kind)]

\* the module globals of org_utils and data_utils, read from the environment
\* once, at import; both are set (deploy_metadata refuses to run otherwise)
ORG_INSTANCE_URL == "https://env.my.salesforce.com"
ORG_ACCESS_TOKEN == "env-token"

\* a request of _deploy_csv_records_internal: bulk_api_base and the
\* Authorization header are built from the module globals
IngestReq(kind, ok) ==
    [kind |-> kind, ok |-> ok, sets_state |-> StateWritten(kind),
     instance_url |-> ORG_INSTANCE_URL, access_token |-> ORG_ACCESS_TOKEN]

\* job states the status endpoint can report; "Paused" stands for a value
\* the code does not know, NoValue for a response without a state key
JobStates == {"JobComplete", "Failed", "Aborted", "InProgress", "Open",
              "UploadComplete", "Paused", NoValue}

ErrorMessages == {"Unknown error", "InvalidBatch",
                  "Job did not complete within the maximum wait time"}

\* variant: the loop condition admits elapsed_time = max_wait_time
PollLoopContinues_Inclusive(elapsed, maxWait) == elapsed <= maxWait

\* while elapsed_time < max_wait_time
PollLoopContinues(elapsed, maxWait) == elapsed < maxWait

\* variant: only the known intermediate states advance the elapsed time
AdvanceElapsed_KnownOnly(elapsed, s, interval) ==
    IF s \in {"InProgress", "Open"} THEN elapsed + interval ELSE elapsed

\* time.sleep(poll_interval); elapsed_time += poll_interval, in the branch of
\* the known intermediate states and in the branch of every other state
AdvanceElapsed(elapsed, s, interval) ==
    IF s \in {"InProgress", "Open"} THEN elapsed + interval ELSE elapsed + interval

\* status requests issued by the loop when no poll is terminal or fails
RECURSIVE PollsUntilTimeout(_, _, _)
PollsUntilTimeout(maxWait, interval, elapsed) ==
    IF PollLoopContinues(elapsed, maxWait)
    THEN 1 + PollsUntilTimeout(maxWait, interval, AdvanceElapsed(elapsed, "InProgress", interval))
    ELSE 0

\* if state == "JobComplete"
IsComplete(s) == s = "JobComplete"

\* variant: only Failed ends the run
IsFailureState_FailedOnly(s) == s = "Failed"

\* elif state == "Failed" or state == "Aborted"
IsFailureState(s) == s = "Failed" \/ s = "Aborted"


(***************************************************************************)
(* Result CSVs of a completed job (successfulResults / failedResults).     *)
(***************************************************************************)
IdPool == <<"001xx", "001yy", "001zz", "001ww">>
ErrPool == <<"REQUIRED_FIELD_MISSING", "DUPLICATE_VALUE", "INVALID_EMAIL", "STRING_TOO_LONG">>

\* the empty response text
EmptySuccessContent == [empty |-> TRUE, hasId |-> FALSE, n |-> 0]

\* response.text of successfulResults: "" or a CSV with n data rows, with or
\* without an sf__Id column; row i holds IdPool[i] in that column
SuccessContents ==
    {EmptySuccessContent} \cup
    [empty : {FALSE}, hasId : BOOLEAN, n : 0..MaxResultRows]

\* the empty response text
EmptyFailedContent == [empty |-> TRUE, hasId |-> FALSE, hasError |-> FALSE, n |-> 0]

\* response.text of failedResults: "" or a CSV with n data rows, with or
\* without the sf__Id and sf__Error columns; row i holds IdPool[i] and
\* ErrPool[i] in these columns
FailedContents ==
    {EmptyFailedContent} \cup
    [empty : {FALSE}, hasId : BOOLEAN, hasError : BOOLEAN, n : 0..MaxResultRows]

\* variant: each created id is put in front of the earlier ones
ApplySuccessContent_Prepend(res, c) ==
    IF c.empty THEN res
    ELSE [res EXCEPT
            !.successful = @ + c.n,
            !.created_ids = IF c.hasId
                            THEN [i \in 1..c.n |-> IdPool[c.n + 1 - i]] \o @
                            ELSE @]

\* for row in success_reader: successful += 1; created_ids.append(row["sf__Id"])
ApplySuccessContent(res, c) ==
    IF c.empty THEN res
    ELSE [res EXCEPT
            !.successful = @ + c.n,
            !.created_ids = IF c.hasId
                            THEN @ \o [i \in 1..c.n |-> IdPool[i]]
                            ELSE @]

\* variant: every entry is built from the first row
FailedRowError_FirstRow(c, i) ==
    [step   |-> Absent,
     record |-> IF c.hasId THEN IdPool[1] ELSE "Unknown",
     error  |-> IF c.hasError THEN <<ErrPool[1]>> ELSE <<"Unknown error">>]

\* {"record": row.get("sf__Id", "Unknown"), "error": row.get("sf__Error", "Unknown error")}
FailedRowError(c, i) ==
    [step   |-> Absent,
     record |-> IF c.hasId THEN IdPool[i] ELSE "Unknown",
     error  |-> IF c.hasError THEN <<ErrPool[i]>> ELSE <<"Unknown error">>]

\* for row in failed_reader: failed += 1; errors.append({...})
ApplyFailedContent(res, c) ==
    IF c.empty THEN res
    ELSE [res EXCEPT
            !.failed = @ + c.n,
            !.errors = @ \o [i \in 1..c.n |-> FailedRowError(c, i)]]

\* variant: a failed result fetch is recorded like a failed step
FetchFailureResult_Recorded(res) ==
    FailWith(res, StepError("fetch_results", <<"Could not fetch results">>))

\* except requests.exceptions.RequestException: only a warning is printed
FetchFailureResult(res) == res

\* variant: a run without a successful row is not a success
FinalSuccess_NeedsSuccessful(res) ==
    [res EXCEPT !.success = (res.failed = 0 /\ res.successful > 0)]

\* all_results["success"] = all_results["failed"] == 0
FinalSuccess(res) == [res EXCEPT !.success = (res.failed = 0)]

\* what the entry point hands back for a result dict of the internal function
ReturnOf(e, res) ==
    IF e = "deploy_csv_records"
    THEN IF res.success THEN "success_message" ELSE "error_message"
    ELSE "dict"

(***************************************************************************)
(* Metadata documents and deploy status responses.                         *)
(***************************************************************************)
\* text is a sequence of pieces: a blank is the piece " ", the metadata
\* suffix is the piece "-meta.xml", no other piece holds a blank or ends
\* with the suffix
MetaSuffix == "-meta.xml"

\* an element that the document does not have
NoElement == [present |-> FALSE, text |-> <<>>]

\* an element of the document with its text
Element(text) == [present |-> TRUE, text |-> text]

\* one folder of metadata_map.yml with its list of {type, extension} entries
Folder(name, entries) == [folder |-> name, entries |-> entries]

MapEntry(type, extension) == [type |-> type, extension |-> extension]

\* the table yaml.safe_load returns, in file order, as metadata_map.yml
metadata_map ==
    <<Folder("settings", <<MapEntry("SurveySettings", <<"settings">>)>>),
      Folder("remoteSiteSettings", <<MapEntry("RemoteSiteSetting", <<"remoteSite">>)>>),
      Folder("objects", <<MapEntry("CustomObject", <<"object">>)>>)>>

\* a table that lists CustomObject in two folders, the first of which has
\* another type as its first entry
AmbiguousMap ==
    <<Folder("settings", <<MapEntry("SurveySettings", <<"settings">>),
                           MapEntry("CustomObject", <<"object">>)>>),
      Folder("objects", <<MapEntry("CustomObject", <<"object">>)>>),
      Folder("remoteSiteSettings", <<MapEntry("RemoteSiteSetting", <<"remoteSite">>)>>)>>

\* a table whose extensions already end with the metadata suffix
SuffixedMap ==
    <<Folder("flows", <<MapEntry("Flow", <<"flow", MetaSuffix>>)>>),
      Folder("objects", <<MapEntry("CustomObject", <<"object", MetaSuffix>>)>>),
      Folder("remoteSiteSettings", <<MapEntry("RemoteSiteSetting", <<"remoteSite", MetaSuffix>>)>>)>>

\* a table with a folder that lists two types with different extensions;
\* every type is listed once
SharedFolderMap ==
    <<Folder("settings", <<MapEntry("SurveySettings", <<"settings">>),
                           MapEntry("RemoteSiteSetting", <<"remoteSite">>)>>),
      Folder("objects", <<MapEntry("CustomObject", <<"object">>)>>)>>

\* the tables a deploy call may find in metadata_map.yml
MetadataMaps == {metadata_map, AmbiguousMap, SuffixedMap, SharedFolderMap}

\* no table: the file was not read
NoMap == <<>>

DocTypes == {"SurveySettings", "RemoteSiteSetting", "CustomObject", "Flow"}

\* the documents of the pipeline runs: root tag and fullName element
Documents ==
    [type : DocTypes, fullName : {NoElement, Element(<<"MySite">>)}, label : {NoElement}]

\* the documents the packaging is examined on: names empty (the element
\* has no text, which ElementTree gives as None), with and without blanks,
\* label absent, empty or with blanks
NameTexts == {<<>>, <<"MySite">>, <<"My", " ", "Site">>}

LabelTexts == {<<>>, <<"My", " ", "Object">>}

AllDocuments ==
    [type : DocTypes,
     fullName : {NoElement} \cup {Element(t) : t \in NameTexts},
     label : {NoElement} \cup {Element(t) : t \in LabelTexts}]

\* no document: no deploy call was made
NoDocument == [type |-> NoValue, fullName |-> NoElement, label |-> NoElement]

\* the input of a run examined on its own: the rows of a CSV, or a metadata
\* document with the table of metadata_map.yml
NoInput == [kind |-> "none", rows |-> <<>>, doc |-> NoDocument, map |-> NoMap]

Inputs ==
    {[kind |-> "csv", rows |-> r, doc |-> NoDocument, map |-> NoMap] :
        r \in SeqsUpTo(CsvRows, MaxRows)} \cup
    {[kind |-> "xml", rows |-> <<>>, doc |-> d, map |-> m] :
        d \in AllDocuments, m \in MetadataMaps}

\* folders of the table with an entry of the given type, in file order
RECURSIVE EntityConfigurations(_, _)
EntityConfigurations(map, type) ==
    IF map = <<>> THEN <<>>
    ELSE IF \E i \in DOMAIN Head(map).entries : Head(map).entries[i].type = type
         THEN <<Head(map)>> \o EntityConfigurations(Tail(map), type)
         ELSE EntityConfigurations(Tail(map), type)

\* if not entity_configurations: raise ValueError
Resolvable(map, type) == EntityConfigurations(map, type) # <<>>

\* folder_name = entity_config, with entity_config = entity_configurations[0]
FolderName(map, type) == EntityConfigurations(map, type)[1].folder

\* extension = metadata_map[entity_config][0]["extension"]
Extension(map, type) == EntityConfigurations(map, type)[1].entries[1].extension

\* fullName inside an f-string: None is written as the word None
NameText(doc) ==
    IF doc.fullName.text = <<>> THEN <<"None">> ELSE doc.fullName.text

\* str.replace(' ', '')
RemoveSpaces(text) == SelectSeq(text, LAMBDA piece : piece # " ")

\* str.endswith("-meta.xml")
EndsWithMetaSuffix(text) == text # <<>> /\ text[Len(text)] = MetaSuffix

\* variant: the blanks of a RemoteSiteSetting name are kept
BaseFilename_KeepSpaces(doc, extension) ==
    IF doc.type = "CustomObject"
    THEN IF doc.label.present /\ doc.label.text # <<>>
         THEN RemoveSpaces(doc.label.text) \o <<"__c.">> \o extension
         ELSE NameText(doc) \o <<".">> \o extension
    ELSE IF doc.type = "SurveySettings"
         THEN <<"Survey">> \o <<".">> \o extension
    ELSE NameText(doc) \o <<".">> \o extension

\* section 3: the filename by metadata type, before the suffix rule
BaseFilename(doc, extension) ==
    IF doc.type = "CustomObject"
    THEN IF doc.label.present /\ doc.label.text # <<>>
         THEN RemoveSpaces(doc.label.text) \o <<"__c.">> \o extension
         ELSE NameText(doc) \o <<".">> \o extension
    ELSE IF doc.type = "RemoteSiteSetting"
         THEN RemoveSpaces(doc.fullName.text) \o <<".">> \o extension
    ELSE IF doc.type = "SurveySettings"
         THEN <<"Survey">> \o <<".">> \o extension
    ELSE NameText(doc) \o <<".">> \o extension

\* variant: the suffix is appended in every case
WithMetaSuffix_Always(name) == Append(name, MetaSuffix)

\* if not metadata_filename.endswith("-meta.xml"): metadata_filename += "-meta.xml"
WithMetaSuffix(name) ==
    IF EndsWithMetaSuffix(name) THEN name ELSE Append(name, MetaSuffix)

MetadataFilename(doc, extension) == WithMetaSuffix(BaseFilename(doc, extension))

\* variant: the type name is used for every folder
PackageXmlName_TypeOnly(folder_name, metadata_type) == metadata_type

\* section 4: package_xml_name
PackageXmlName(folder_name, metadata_type) ==
    IF folder_name = "settings" THEN "Settings" ELSE metadata_type

\* section 5: the <types> of package.xml, one <members> and one <name>
PackageXml(doc, folder_name) ==
    [members |-> <<NameText(doc)>>,
     name    |-> PackageXmlName(folder_name, doc.type)]

\* no package.xml: packaging did not get that far
NoPackageXml == [members |-> <<>>, name |-> NoValue]

\* an archive entry: its path, and what it holds
ZipEntry(path, content) == [path |-> path, content |-> content]

\* variant: the archive holds the metadata file only
BuildArchive_NoManifest(doc, map) ==
    <<ZipEntry(<<FolderName(map, doc.type), "/">>
                 \o MetadataFilename(doc, Extension(map, doc.type)),
               "metadata_xml")>>

\* section 6: the entries written to the zip, in order
BuildArchive(doc, map) ==
    <<ZipEntry(<<FolderName(map, doc.type), "/">>
                 \o MetadataFilename(doc, Extension(map, doc.type)),
               "metadata_xml"),
      ZipEntry(<<"package.xml">>, "package_xml")>>

\* variant: the fullName element is not looked for
FullNameMissing_Never(doc) == FALSE

\* if fullName_elem is None:
FullNameMissing(doc) == ~doc.fullName.present

MissingFullName == "ValueError: Metadata XML must contain a <fullName> element."
MissingMapFile == "FileNotFoundError: metadata_map.yml file not found"
NoConfiguration == "ValueError: Unable to locate configuration for entity"
NoneHasNoReplace == "AttributeError: 'NoneType' object has no attribute 'replace'"

\* exception raised by the packaging part of deploy_metadata_xml, "none" if
\* none; exists tells whether metadata_map.yml is there
PackagingError(doc, map, exists) ==
    IF FullNameMissing(doc) THEN MissingFullName
    ELSE IF ~exists THEN MissingMapFile
    ELSE IF ~Resolvable(map, doc.type) THEN NoConfiguration
    ELSE IF doc.type = "RemoteSiteSetting" /\ doc.fullName.text = <<>>
         THEN NoneHasNoReplace
    ELSE "none"

\* org_details of the store: nothing stored
NoOrgDetails == [instance_url |-> NoValue, access_token |-> NoValue]

\* (access_token, server_url) pairs generate_token can return
Orgs ==
    {[instance_url |-> "https://b.my.salesforce.com", access_token |-> "token-b"],
     [instance_url |-> "https://c.my.salesforce.com", access_token |-> "token-c"]}

\* variant: the deploy is a validation only
deploy_options_CheckOnly ==
    [allowMissingFiles |-> FALSE, autoUpdatePackage |-> FALSE, checkOnly |-> TRUE,
     ignoreWarnings |-> FALSE, performRetrieve |-> FALSE, purgeOnDelete |-> FALSE,
     rollbackOnError |-> TRUE, runTests |-> <<>>, singlePackage |-> TRUE,
     testLevel |-> "NoTestRun"]

\* deploy_options["deployOptions"], the json part of the multipart body
deploy_options ==
    [allowMissingFiles |-> FALSE, autoUpdatePackage |-> FALSE, checkOnly |-> FALSE,
     ignoreWarnings |-> FALSE, performRetrieve |-> FALSE, purgeOnDelete |-> FALSE,
     rollbackOnError |-> TRUE, runTests |-> <<>>, singlePackage |-> TRUE,
     testLevel |-> "NoTestRun"]

\* requests.post(deploy_url, headers=headers, data=body)
DeployRequest(instance_url, access_token) ==
    [instance_url |-> instance_url, access_token |-> access_token,
     deployOptions |-> deploy_options]

DeployStatuses == {"Pending", "InProgress", "Succeeded", "Failed"}

\* elements of details.componentFailures; the second one lacks both keys
ComponentFailures ==
    {[fullName |-> "X", problem |-> "required field missing"],
     [fullName |-> Absent, problem |-> Absent]}

\* deployResult without a details key
NoDetails ==
    [present |-> FALSE, isNone |-> FALSE, hasFailures |-> FALSE, componentFailures |-> <<>>]

\* "details": null
NullDetails ==
    [present |-> TRUE, isNone |-> TRUE, hasFailures |-> FALSE, componentFailures |-> <<>>]

\* the details of a deployResult: absent, null, without a componentFailures
\* key, or with a list of component failures
DetailsValues ==
    {NoDetails, NullDetails,
     [present |-> TRUE, isNone |-> FALSE, hasFailures |-> FALSE, componentFailures |-> <<>>]} \cup
    {[present |-> TRUE, isNone |-> FALSE, hasFailures |-> TRUE, componentFailures |-> f] :
        f \in SeqsUpTo(ComponentFailures, MaxFailures)}

\* result["deployResult"] of a status response; of a response that is not
\* done the loop reads status and done only, so its error count and details
\* are not varied
DeployResponses ==
    [status : DeployStatuses, done : {TRUE}, success : BOOLEAN,
     numberComponentErrors : 0..1, details : DetailsValues] \cup
    [status : DeployStatuses, done : {FALSE}, success : BOOLEAN,
     numberComponentErrors : {0}, details : {NoDetails}]

NoResponse ==
    [status |-> NoValue, done |-> FALSE, success |-> FALSE,
     numberComponentErrors |-> 0, details |-> NoDetails]

\* response of the deploy POST: status code and body text
PostResponses == [status_code : {201, 300, 500}, text : {"body"}]

\* no response: the POST was not issued or raised
NoPostResponse == [status_code |-> 0, text |-> NoValue]

\* variant: a 300 answer is taken as accepted
SubmitRejected_Above300(response) == response.status_code > 300

\* if response.status_code >= 300:
SubmitRejected(response) == response.status_code >= 300

\* variant: a result without component errors is a success
DeploySucceeded_NoErrors(r) == r.numberComponentErrors = 0

\* if deploy_result.get("success"):
DeploySucceeded(r) == r.success

\* variant: the last failure comes first
ReportedFailure_Reversed(failures, i) ==
    [fullName |-> IF failures[Len(failures) + 1 - i].fullName = Absent THEN "Unknown"
                  ELSE failures[Len(failures) + 1 - i].fullName,
     problem  |-> IF failures[Len(failures) + 1 - i].problem = Absent THEN "Unknown error"
                  ELSE failures[Len(failures) + 1 - i].problem]

\* f"  - {failure.get('fullName', 'Unknown')}: {failure.get('problem', 'Unknown error')}"
ReportedFailure(failures, i) ==
    [fullName |-> IF failures[i].fullName = Absent THEN "Unknown"
                  ELSE failures[i].fullName,
     problem  |-> IF failures[i].problem = Absent THEN "Unknown error"
                  ELSE failures[i].problem]

\* the component failure lines of the error message
ReportedFailures(r) ==
    IF r.details.present /\ r.details.hasFailures
    THEN [i \in DOMAIN r.details.componentFailures |->
            ReportedFailure(r.details.componentFailures, i)]
    ELSE <<>>

\* no message: deploy_metadata did not return
NoReport == [kind |-> "none", error_count |-> 0, failures |-> <<>>, text |-> Absent]

\* "Error: Deployment request failed. Check the console output for details."
RequestFailedReport ==
    [kind |-> "request_failed", error_count |-> 0, failures |-> <<>>, text |-> Absent]

\* f"Error: {str(e)}" / f"Error deploying metadata: {str(e)}"
ExceptionReport(x) ==
    [kind |-> "exception", error_count |-> 0, failures |-> <<>>, text |-> x]

\* the message deploy_metadata builds from the value of deploy_metadata_xml
DeployReport(r) ==
    IF r = NoResponse THEN RequestFailedReport
    ELSE IF DeploySucceeded(r)
         THEN [kind |-> "success", error_count |-> 0, failures |-> <<>>, text |-> Absent]
         ELSE [kind |-> "failed", error_count |-> r.numberComponentErrors,
               failures |-> ReportedFailures(r), text |-> Absent]

\* if result["deployResult"]["done"]:
DeployDone(resp) == resp.done

\* the failure branch tests "componentFailures" in deploy_result["details"]
\* whenever the key details is there: on None the test is a TypeError
DetailsLookupRaises(r) == ~DeploySucceeded(r) /\ r.details.present /\ r.details.isNone

(***************************************************************************)
(* bulk_upload_accounts values.                                            *)
(***************************************************************************)
NoBulkResult == [jobId |-> NoValue, state |-> NoValue]

\* {"jobId": None, "state": "NoRecords"}
NoRecordsBulkResult == [jobId |-> NoValue, state |-> "NoRecords"]

\* csv_lines = ["Name"] + [row.get("Name", "") for row in rows]
BulkCsvBody(recs) ==
    [header |-> <<"Name">>,
     rows   |-> [i \in DOMAIN recs |->
                   <<IF "Name" \in DOMAIN recs[i] THEN recs[i]["Name"] ELSE "">>]]

(***************************************************************************)
(* Slack bot values.                                                       *)
(***************************************************************************)
\* the message events delivered to the app, each handled on its own thread
Events == {1, 2}

\* what an event carries: a text, a blank text, or a message of a bot
EventKinds == {"text", "empty", "bot_message"}

\* SystemMessage(content=SYSTEM_INSTRUCTIONS)
SystemMessage == [role |-> "system", event |-> 0]

\* HumanMessage(content=text) of an event, the AIMessage the agent adds
HumanMessage(h) == [role |-> "human", event |-> h]
AIMessage(h) == [role |-> "ai", event |-> h]

\* the event was not delivered yet
NoHandler == [pc |-> "waiting", messages |-> <<>>]

\* conversation_messages = result['messages']
WriteBack(history, messages, h) == Append(messages, AIMessage(h))

(***************************************************************************)
(* JWTTokenManager values.                                                 *)
(***************************************************************************)
MaxClock == 600       \* seconds of process time examined

\* _access_token_expiry is None
NoExpiry == -1

\* seconds a token request may take, and the clock steps between calls
Latencies == {0, 30}
TickStep == 60

\* expires_in of a token response: key absent, or a value int() rejects
NoExpiresIn == -1
NotANumber == -2

\* token_data of a token response: access_token absent or given, expires_in
\* absent (the default 1800 applies), a number, or not a number
TokenResponses ==
    [ok : {TRUE}, access_token : {Absent, "jwt1", "jwt2"},
     expires_in : {NoExpiresIn, 60, 240, NotANumber}]

\* the request raised: connection error, HTTP error status, body not JSON
FailedTokenResponse == [ok |-> FALSE, access_token |-> Absent, expires_in |-> NoExpiresIn]

NoTokenResponse == [ok |-> FALSE, access_token |-> NoValue, expires_in |-> NoExpiresIn]

NoTokenCall == [kind |-> "none", token |-> NoValue]

\* cls._access_token and cls._access_token_expiry
\*   and time.time() < cls._access_token_expiry - 120
CacheValid(token, expiry, t) ==
    token # NoValue /\ expiry # NoExpiry /\ t < expiry - 120

\* expires_in = token_data.get("expires_in", 1800)
ExpiresIn(token_data) ==
    IF token_data.expires_in = NoExpiresIn THEN 1800 ELSE token_data.expires_in

\* int(expires_in) raises on a value that is not a number
IntRaises(expires_in) == expires_in = NotANumber

(***************************************************************************)
(* Initial state: no call is running.                                      *)
(***************************************************************************)
Init ==
    /\ pc = "idle"
    /\ entry = "none"
    /\ records = <<>>
    /\ all_results = NoResults
    /\ csv_content = NoCsv
    /\ elapsed_time = 0
    /\ state = NoValue
    /\ reqlog = <<>>
    /\ sleeps = 0
    /\ success_content = EmptySuccessContent
    /\ failed_content = EmptyFailedContent
    /\ exc = "none"
    /\ ret = "none"
    /\ d_resp = NoResponse
    /\ d_posts = 0
    /\ d_polls = 0
    /\ d_slept = 0
    /\ d_result = NoResponse
    /\ d_doc = NoDocument
    /\ d_post = NoPostResponse
    /\ d_sent = <<>>
    /\ d_report = NoReport
    /\ d_map = NoMap
    /\ d_archive = <<>>
    /\ package_xml = NoPackageXml
    /\ map_loads = 0
    /\ input = NoInput
    /\ store = NoOrgDetails
    /\ now = 0
    /\ jwt_access_token = NoValue
    /\ jwt_access_token_expiry = NoExpiry
    /\ jwt_response = NoTokenResponse
    /\ jwt_ret = NoTokenCall
    /\ conversation_messages = <<SystemMessage>>
    /\ handlers = [h \in Events |-> NoHandler]
    /\ b_reqs = <<>>
    /\ b_result = NoBulkResult

(***************************************************************************)
(* Ingest pipeline.                                                        *)
(***************************************************************************)
\* variant: the empty-input test never fires
NoRows_Never(rows) == FALSE

\* if not records: (data_utils.py), if not rows: (bulk_upload.py)
NoRows(rows) == rows = <<>>

\* _deploy_csv_records_internal up to the first request (lines 132-164)
EnterInternal(e, recs) ==
    /\ entry' = e
    /\ records' = recs
    /\ IF NoRows(recs)
       THEN /\ all_results' = NoRecordsResult
            /\ pc' = "returned"
            /\ ret' = "dict"
       ELSE /\ all_results' = InitialResults(recs)
            /\ pc' = "create"
            /\ ret' = ret
    /\ UNCHANGED <<csv_content, elapsed_time, state, reqlog, sleeps, exc>>
    /\ UNCHANGED <<deployVars, bulkVars, fetchVars>>

\* deploy_csv_records: parse csv_content, refuse an empty record list, else
\* call the internal function
DeployCsvRecordsOn(rows) ==
    LET recs == ParseRows(rows)
    IN  IF recs = <<>>
        THEN /\ entry' = "deploy_csv_records"
             /\ pc' = "returned"
             /\ ret' = "no_valid_records_message"
             /\ UNCHANGED <<exc>>
             /\ UNCHANGED ingestVars
             /\ UNCHANGED <<deployVars, bulkVars>>
        ELSE EnterInternal("deploy_csv_records", recs)

DeployCsvRecords ==
    /\ pc = "idle"
    /\ \E rows \in SeqsUpTo(CsvRows, MaxRows) : DeployCsvRecordsOn(rows)
    /\ UNCHANGED procVars

\* deploy_csv_records on the input of the run
RunDeployCsvRecords ==
    /\ pc = "idle"
    /\ input.kind = "csv"
    /\ DeployCsvRecordsOn(input.rows)
    /\ UNCHANGED procVars

\* deploy_csv_data on the input of the run
RunDeployCsvData ==
    /\ pc = "idle"
    /\ input.kind = "csv"
    /\ EnterInternal("deploy_csv_data", ParseRows(input.rows))
    /\ UNCHANGED procVars

\* deploy_csv_data: parse the file, call the internal function
DeployCsvData ==
    /\ pc = "idle"
    /\ \E rows \in SeqsUpTo(CsvRows, MaxRows) :
         EnterInternal("deploy_csv_data", ParseRows(rows))
    /\ UNCHANGED procVars

\* return all_results
ReturnResults(res) ==
    /\ all_results' = res
    /\ pc' = "returned"
    /\ ret' = ReturnOf(entry, res)

\* Step 1: POST jobs/ingest
CreateJob ==
    /\ pc = "create"
    /\ \/ /\ reqlog' = Append(reqlog, IngestReq("create", TRUE))
          /\ pc' = "upload"
          /\ UNCHANGED <<all_results, ret>>
       \/ \E e \in RequestErrors :
          /\ reqlog' = Append(reqlog, IngestReq("create", FALSE))
          /\ ReturnResults(FailWith(all_results, CreateJobError(e)))
    /\ UNCHANGED <<entry, records, csv_content, elapsed_time, state, sleeps, exc>>
    /\ UNCHANGED <<deployVars, bulkVars, fetchVars>>
    /\ UNCHANGED procVars

\* Step 2: build the CSV, PUT jobs/ingest/{id}/batches
UploadData ==
    /\ pc = "upload"
    /\ LET fieldnames == KeysInOrder(records[1], FieldOrder)
       IN  IF WriterRaises(records, fieldnames)
           THEN /\ exc' = "ValueError"
                /\ pc' = "raised"
                /\ UNCHANGED <<csv_content, reqlog, all_results, ret>>
           ELSE /\ csv_content' = WriteCsv(records, fieldnames)
                /\ exc' = exc
                /\ \/ /\ reqlog' = Append(reqlog, IngestReq("upload", TRUE))
                      /\ pc' = "close"
                      /\ UNCHANGED <<all_results, ret>>
                   \/ \E e \in RequestErrors :
                      /\ reqlog' = Append(reqlog, IngestReq("upload", FALSE))
                      /\ ReturnResults(FailWith(all_results, UploadError(e)))
    /\ UNCHANGED <<entry, records, elapsed_time, state, sleeps>>
    /\ UNCHANGED <<deployVars, bulkVars, fetchVars>>
    /\ UNCHANGED procVars

\* variant: a failed close is recorded but the function goes on polling
CloseJob_NoReturn ==
    /\ pc = "close"
    /\ \/ /\ reqlog' = Append(reqlog, IngestReq("close", TRUE))
          /\ pc' = "poll"
          /\ UNCHANGED <<all_results, ret>>
       \/ \E e \in RequestErrors :
          /\ reqlog' = Append(reqlog, IngestReq("close", FALSE))
          /\ all_results' = FailWith(all_results, CloseJobError(e))
          /\ pc' = "poll"
          /\ UNCHANGED ret
    /\ UNCHANGED <<entry, records, csv_content, elapsed_time, state, sleeps, exc>>
    /\ UNCHANGED <<deployVars, bulkVars, fetchVars>>
    /\ UNCHANGED procVars

\* Step 3: PATCH jobs/ingest/{id} with state UploadComplete
CloseJob ==
    /\ pc = "close"
    /\ \/ /\ reqlog' = Append(reqlog, IngestReq("close", TRUE))
          /\ pc' = "poll"
          /\ UNCHANGED <<all_results, ret>>
       \/ \E e \in RequestErrors :
          /\ reqlog' = Append(reqlog, IngestReq("close", FALSE))
          /\ ReturnResults(FailWith(all_results, CloseJobError(e)))
    /\ UNCHANGED <<entry, records, csv_content, elapsed_time, state, sleeps, exc>>
    /\ UNCHANGED <<deployVars, bulkVars, fetchVars>>
    /\ UNCHANGED procVars

\* Step 4: one iteration of the polling loop
PollStatus ==
    /\ pc = "poll"
    /\ PollLoopContinues(elapsed_time, max_wait_time)
    /\ \/ \E e \in RequestErrors :
          /\ reqlog' = Append(reqlog, IngestReq("status", FALSE))
          /\ ReturnResults(FailWith(all_results, PollError(e)))
          /\ UNCHANGED <<state, elapsed_time, sleeps>>
       \/ \E s \in JobStates, m \in ErrorMessages :
          /\ reqlog' = Append(reqlog, IngestReq("status", TRUE))
          /\ state' = s
          /\ IF IsComplete(s)
             THEN /\ pc' = "after_poll"
                  /\ UNCHANGED <<all_results, ret, elapsed_time, sleeps>>
             ELSE IF IsFailureState(s)
             THEN /\ ReturnResults(FailWith(all_results, JobProcessingError(s, m)))
                  /\ UNCHANGED <<elapsed_time, sleeps>>
             ELSE /\ sleeps' = sleeps + 1
                  /\ elapsed_time' = AdvanceElapsed(elapsed_time, s, poll_interval)
                  /\ pc' = "poll"
                  /\ UNCHANGED <<all_results, ret>>
    /\ UNCHANGED <<entry, records, csv_content, exc>>
    /\ UNCHANGED <<deployVars, bulkVars, fetchVars>>
    /\ UNCHANGED procVars

\* the loop condition fails: leave the loop
PollLoopExit ==
    /\ pc = "poll"
    /\ ~PollLoopContinues(elapsed_time, max_wait_time)
    /\ pc' = "after_poll"
    /\ UNCHANGED <<entry, ret, exc>>
    /\ UNCHANGED ingestVars
    /\ UNCHANGED <<deployVars, bulkVars>>
    /\ UNCHANGED procVars

\* if elapsed_time >= max_wait_time: report the timeout
CheckTimeout ==
    /\ pc = "after_poll"
    /\ IF elapsed_time >= max_wait_time
       THEN ReturnResults(FailWith(all_results, TimeoutError))
       ELSE /\ pc' = "fetch_success"
            /\ UNCHANGED <<all_results, ret>>
    /\ UNCHANGED <<entry, records, csv_content, elapsed_time, state, reqlog, sleeps, exc>>
    /\ UNCHANGED <<deployVars, bulkVars, fetchVars>>
    /\ UNCHANGED procVars

\* Step 5a: GET successfulResults
FetchSuccessful ==
    /\ pc = "fetch_success"
    /\ \/ /\ reqlog' = Append(reqlog, IngestReq("successfulResults", FALSE))
          /\ all_results' = FetchFailureResult(all_results)
          /\ UNCHANGED success_content
       \/ \E c \in SuccessContents :
          /\ reqlog' = Append(reqlog, IngestReq("successfulResults", TRUE))
          /\ success_content' = c
          /\ all_results' = ApplySuccessContent(all_results, c)
    /\ pc' = "fetch_failed"
    /\ UNCHANGED <<entry, records, csv_content, elapsed_time, state, sleeps, exc, ret>>
    /\ UNCHANGED <<deployVars, bulkVars, failed_content>>
    /\ UNCHANGED procVars

\* Step 5b: GET failedResults, then the final success flag and the return
FetchFailed ==
    /\ pc = "fetch_failed"
    /\ \/ /\ reqlog' = Append(reqlog, IngestReq("failedResults", FALSE))
          /\ ReturnResults(FinalSuccess(FetchFailureResult(all_results)))
          /\ UNCHANGED failed_content
       \/ \E c \in FailedContents :
          /\ reqlog' = Append(reqlog, IngestReq("failedResults", TRUE))
          /\ failed_content' = c
          /\ ReturnResults(FinalSuccess(ApplyFailedContent(all_results, c)))
    /\ UNCHANGED <<entry, records, csv_content, elapsed_time, state, sleeps, exc>>
    /\ UNCHANGED <<deployVars, bulkVars, success_content>>
    /\ UNCHANGED procVars

(***************************************************************************)
(* bulk_upload_accounts (bulk_upload.py): create, upload and close without *)
(* polling; the helpers let every request exception reach the caller.      *)
(***************************************************************************)
\* rows = list(records); if not rows: return {"jobId": None, "state": "NoRecords"}
BulkUploadAccounts ==
    /\ pc = "idle"
    /\ \E rows \in SeqsUpTo(CsvRows, MaxRows) :
         LET recs == ParseRows(rows)
         IN  /\ entry' = "bulk_upload_accounts"
             /\ records' = recs
             /\ IF NoRows(recs)
                THEN /\ b_result' = NoRecordsBulkResult
                     /\ csv_content' = csv_content
                     /\ pc' = "b_returned"
                ELSE /\ b_result' = b_result
                     /\ csv_content' = BulkCsvBody(recs)
                     /\ pc' = "b_create"
    /\ UNCHANGED <<all_results, elapsed_time, state, reqlog, sleeps, fetchVars,
                   exc, ret, b_reqs>>
    /\ UNCHANGED deployVars
    /\ UNCHANGED procVars

\* one request of bulk_upload_accounts: kind at position from, then position
\* to; the helper raises on a transport error or an HTTP error status
BulkRequest(from, kind, to) ==
    /\ pc = from
    /\ \/ /\ b_reqs' = Append(b_reqs, Req(kind, TRUE))
          /\ pc' = to
          /\ exc' = exc
       \/ /\ b_reqs' = Append(b_reqs, Req(kind, FALSE))
          /\ pc' = "b_raised"
          /\ exc' = "RequestException"

\* _create_ingest_job
BulkCreateJob ==
    /\ BulkRequest("b_create", "create", "b_upload")
    /\ UNCHANGED <<entry, ret, b_result>>
    /\ UNCHANGED <<ingestVars, deployVars>>
    /\ UNCHANGED procVars

\* _upload_csv_batch
BulkUploadBatch ==
    /\ BulkRequest("b_upload", "upload", "b_close")
    /\ UNCHANGED <<entry, ret, b_result>>
    /\ UNCHANGED <<ingestVars, deployVars>>
    /\ UNCHANGED procVars

\* _close_ingest_job, then return {"jobId": job_id, "state": job_info.get("state")}
BulkCloseJob ==
    /\ BulkRequest("b_close", "close", "b_returned")
    /\ IF pc' = "b_returned"
       THEN \E s \in {"UploadComplete", NoValue} :
               b_result' = [jobId |-> "job", state |-> s]
       ELSE b_result' = b_result
    /\ UNCHANGED <<entry, ret>>
    /\ UNCHANGED <<ingestVars, deployVars>>
    /\ UNCHANGED procVars

(***************************************************************************)
(* Metadata deploy pipeline.                                               *)
(***************************************************************************)
\* an exception leaves deploy_metadata_xml: deploy_metadata catches it and
\* returns an error string, a direct caller sees it
DeployRaise(e, x) ==
    IF e = "deploy_metadata"
    THEN /\ pc' = "d_returned"
         /\ ret' = "error_message"
         /\ d_report' = ExceptionReport(x)
         /\ exc' = exc
    ELSE /\ pc' = "d_raised"
         /\ exc' = x
         /\ ret' = ret
         /\ d_report' = d_report

\* deploy_metadata_xml returns r, a deployResult or None (NoResponse);
\* deploy_metadata turns it into a message
DeployReturn(e, r) ==
    /\ d_result' = r
    /\ pc' = "d_returned"
    /\ exc' = exc
    /\ ret' = IF e = "deploy_metadata"
              THEN IF r = NoResponse THEN "request_failed_message"
                   ELSE IF DeploySucceeded(r) THEN "success_message"
                   ELSE "error_message"
              ELSE IF r = NoResponse THEN "None" ELSE "dict"
    /\ d_report' = IF e = "deploy_metadata" THEN DeployReport(r) ELSE d_report

\* sections 1-6 of deploy_metadata_xml on a document: parse, read
\* metadata_map.yml, resolve the configuration, build the archive
Packaging(e, doc, map, exists) ==
    /\ entry' = e
    /\ d_doc' = doc
    /\ IF ~FullNameMissing(doc) /\ exists
       THEN /\ map_loads' = map_loads + 1
            /\ d_map' = map
       ELSE UNCHANGED <<map_loads, d_map>>
    /\ IF PackagingError(doc, map, exists) # "none"
       THEN /\ DeployRaise(e, PackagingError(doc, map, exists))
            /\ d_archive' = <<>>
            /\ package_xml' = NoPackageXml
       ELSE /\ pc' = "d_submit"
            /\ package_xml' = PackageXml(doc, FolderName(map, doc.type))
            /\ d_archive' = BuildArchive(doc, map)
            /\ UNCHANGED <<exc, ret, d_report>>
    /\ UNCHANGED <<d_resp, d_posts, d_polls, d_slept, d_result, d_post, d_sent>>
    /\ UNCHANGED <<envVars, otherVars>>
    /\ UNCHANGED <<ingestVars, bulkVars>>

\* a deploy call through either entry point
StartDeploy ==
    /\ pc = "idle"
    /\ \E e \in {"deploy_metadata", "deploy_metadata_xml"},
          doc \in Documents, exists \in BOOLEAN :
         Packaging(e, doc, metadata_map, exists)

\* a deploy call on the input of the run
RunDeploy ==
    /\ pc = "idle"
    /\ input.kind = "xml"
    /\ \E e \in {"deploy_metadata", "deploy_metadata_xml"}, exists \in BOOLEAN :
         Packaging(e, input.doc, input.map, exists)

\* the call is over and the process goes on to its next deploy call: the
\* locals of the finished call are gone
NextCall ==
    /\ pc \in {"d_returned", "d_raised"}
    /\ map_loads < MaxLoads
    /\ pc' = "idle"
    /\ entry' = "none"
    /\ exc' = "none"
    /\ ret' = "none"
    /\ d_resp' = NoResponse
    /\ d_posts' = 0
    /\ d_polls' = 0
    /\ d_slept' = 0
    /\ d_result' = NoResponse
    /\ d_post' = NoPostResponse
    /\ d_sent' = <<>>
    /\ d_report' = NoReport
    /\ d_doc' = NoDocument
    /\ d_map' = NoMap
    /\ d_archive' = <<>>
    /\ package_xml' = NoPackageXml
    /\ UNCHANGED <<ingestVars, bulkVars, procVars>>

\* connect_to_salesforce_org between two calls: generate_token raises or
\* gives no token and the store is left alone, or org_details is stored
ConnectToSalesforceOrg ==
    /\ pc = "idle"
    /\ store' \in {store} \cup Orgs
    /\ UNCHANGED <<pc, entry, exc, ret, map_loads, input>>
    /\ UNCHANGED <<ingestVars, deployVars, bulkVars, otherVars>>

(***************************************************************************)
(* Slack bot: respond_message, one call per message event.                 *)
(***************************************************************************)
\* the handler starts: messages of bots and blank texts are dropped, the
\* text of any other message is appended to the shared history
RespondMessage(h) ==
    /\ handlers[h].pc = "waiting"
    /\ \E kind \in EventKinds :
         IF kind # "text"
         THEN /\ handlers' = [handlers EXCEPT ![h].pc = "skipped"]
              /\ UNCHANGED conversation_messages
         ELSE /\ conversation_messages' = Append(conversation_messages, HumanMessage(h))
              /\ handlers' = [handlers EXCEPT ![h].pc = "invoke"]
    /\ UNCHANGED <<pc, entry, exc, ret, map_loads, envVars, jwtVars>>
    /\ UNCHANGED <<ingestVars, deployVars, bulkVars>>

\* agent.invoke({"messages": conversation_messages}) takes the history as
\* it is when the call starts
AgentInvoke(h) ==
    /\ handlers[h].pc = "invoke"
    /\ handlers' = [handlers EXCEPT ![h] = [pc |-> "running", messages |-> conversation_messages]]
    /\ UNCHANGED conversation_messages
    /\ UNCHANGED <<pc, entry, exc, ret, map_loads, envVars, jwtVars>>
    /\ UNCHANGED <<ingestVars, deployVars, bulkVars>>

\* agent.invoke returns its messages, which replace the history, or raises
\* and the error text is posted
AgentReturn(h) ==
    /\ handlers[h].pc = "running"
    /\ \/ /\ conversation_messages' =
                WriteBack(conversation_messages, handlers[h].messages, h)
          /\ handlers' = [handlers EXCEPT ![h].pc = "replied"]
       \/ /\ handlers' = [handlers EXCEPT ![h].pc = "failed"]
          /\ UNCHANGED conversation_messages
    /\ UNCHANGED <<pc, entry, exc, ret, map_loads, envVars, jwtVars>>
    /\ UNCHANGED <<ingestVars, deployVars, bulkVars>>

(***************************************************************************)
(* JWTTokenManager.                                                        *)
(***************************************************************************)
\* time passes between two calls
Tick ==
    /\ now + TickStep <= MaxClock
    /\ now' = now + TickStep
    /\ UNCHANGED <<jwt_access_token, jwt_access_token_expiry, jwt_response, jwt_ret>>
    /\ UNCHANGED <<pc, entry, exc, ret, map_loads, envVars, botVars>>
    /\ UNCHANGED <<ingestVars, deployVars, bulkVars>>

\* the token request of get_jwt_token answered by token_data after d seconds
FetchToken(token_data, d) ==
    /\ now + d <= MaxClock
    /\ now' = now + d
    /\ jwt_response' = token_data
    /\ IF ~token_data.ok \/ token_data.access_token = Absent
       THEN /\ jwt_ret' = [kind |-> "raised", token |-> NoValue]
            /\ UNCHANGED <<jwt_access_token, jwt_access_token_expiry>>
       ELSE /\ jwt_access_token' = token_data.access_token
            /\ IF IntRaises(ExpiresIn(token_data))
               THEN /\ jwt_ret' = [kind |-> "raised", token |-> NoValue]
                    /\ UNCHANGED jwt_access_token_expiry
               ELSE /\ jwt_access_token_expiry' = now' + ExpiresIn(token_data)
                    /\ jwt_ret' = [kind |-> "fetched", token |-> token_data.access_token]

\* JWTTokenManager.get_jwt_token
GetJwtToken ==
    /\ IF CacheValid(jwt_access_token, jwt_access_token_expiry, now)
       THEN /\ jwt_ret' = [kind |-> "cached", token |-> jwt_access_token]
            /\ jwt_response' = NoTokenResponse
            /\ UNCHANGED <<now, jwt_access_token, jwt_access_token_expiry>>
       ELSE \E token_data \in TokenResponses \cup {FailedTokenResponse}, d \in Latencies :
                FetchToken(token_data, d)
    /\ UNCHANGED <<pc, entry, exc, ret, map_loads, envVars, botVars>>
    /\ UNCHANGED <<ingestVars, deployVars, bulkVars>>

\* variant: a rejected POST is sent again
DeploySubmit_Retry ==
    /\ pc = "d_submit"
    /\ d_posts' = d_posts + 1
    /\ d_sent' = Append(d_sent, DeployRequest(ORG_INSTANCE_URL, ORG_ACCESS_TOKEN))
    /\ \/ /\ DeployRaise(entry, "RequestException")
          /\ UNCHANGED <<d_result, d_post>>
       \/ \E response \in PostResponses :
          /\ d_post' = response
          /\ IF SubmitRejected(response)
             THEN /\ pc' = "d_submit"
                  /\ UNCHANGED <<d_result, exc, ret, d_report>>
             ELSE \/ /\ pc' = "d_poll"
                     /\ UNCHANGED <<d_result, exc, ret, d_report>>
                  \/ /\ DeployRaise(entry, "ValueError")
                     /\ UNCHANGED d_result
    /\ UNCHANGED <<entry, d_resp, d_polls, d_slept, packVars>>
    /\ UNCHANGED <<ingestVars, bulkVars>>
    /\ UNCHANGED procVars

\* section 7: POST metadata/deployRequest; requests.post may raise, a status
\* >= 300 makes the function return None, response.json() may raise on an
\* accepted answer whose body is not JSON
DeploySubmit ==
    /\ pc = "d_submit"
    /\ d_posts' = d_posts + 1
    /\ d_sent' = Append(d_sent, DeployRequest(ORG_INSTANCE_URL, ORG_ACCESS_TOKEN))
    /\ \/ /\ DeployRaise(entry, "RequestException")
          /\ UNCHANGED <<d_result, d_post>>
       \/ \E response \in PostResponses :
          /\ d_post' = response
          /\ IF SubmitRejected(response)
             THEN DeployReturn(entry, NoResponse)
             ELSE \/ /\ pc' = "d_poll"
                     /\ UNCHANGED <<d_result, exc, ret, d_report>>
                  \/ /\ DeployRaise(entry, "ValueError")
                     /\ UNCHANGED d_result
    /\ UNCHANGED <<entry, d_resp, d_polls, d_slept, packVars>>
    /\ UNCHANGED <<ingestVars, bulkVars>>
    /\ UNCHANGED procVars

\* section 8: one iteration of the while True polling loop
DeployPoll ==
    /\ pc = "d_poll"
    /\ d_polls' = Min(d_polls + 1, DeployPollCap)
    /\ \/ \E x \in {"RequestException", "KeyError"} :
          /\ DeployRaise(entry, x)
          /\ UNCHANGED <<d_resp, d_slept, d_result>>
       \/ \E resp \in DeployResponses :
          /\ d_resp' = resp
          /\ IF DeployDone(resp) /\ DetailsLookupRaises(resp)
             THEN /\ DeployRaise(entry, "TypeError")
                  /\ UNCHANGED <<d_slept, d_result>>
             ELSE IF DeployDone(resp)
             THEN /\ DeployReturn(entry, resp)
                  /\ UNCHANGED d_slept
             ELSE /\ d_slept' = Min(d_slept + deploy_sleep, DeployPollCap * deploy_sleep)
                  /\ pc' = "d_poll"
                  /\ UNCHANGED <<d_result, exc, ret, d_report>>
    /\ UNCHANGED <<entry, d_posts, d_post, d_sent, packVars>>
    /\ UNCHANGED <<ingestVars, bulkVars>>
    /\ UNCHANGED procVars

Next ==
    \/ DeployCsvRecords
    \/ DeployCsvData
    \/ CreateJob
    \/ UploadData
    \/ CloseJob
    \/ PollStatus
    \/ PollLoopExit
    \/ CheckTimeout
    \/ FetchSuccessful
    \/ FetchFailed
    \/ BulkUploadAccounts
    \/ BulkCreateJob
    \/ BulkUploadBatch
    \/ BulkCloseJob
    \/ StartDeploy
    \/ DeploySubmit
    \/ DeployPoll

Spec == Init /\ [][Next]_vars

\* the one thread keeps running: every request has a timeout or an answer
\* a run examined on its own input: the entry points up to the upload and
\* the deploy submission, and successive deploy calls of one process
InputInit ==
    \E i \in Inputs :
        /\ pc = "idle"
        /\ entry = "none"
        /\ records = <<>>
        /\ all_results = NoResults
        /\ csv_content = NoCsv
        /\ elapsed_time = 0
        /\ state = NoValue
        /\ reqlog = <<>>
        /\ sleeps = 0
        /\ success_content = EmptySuccessContent
        /\ failed_content = EmptyFailedContent
        /\ exc = "none"
        /\ ret = "none"
        /\ d_resp = NoResponse
        /\ d_posts = 0
        /\ d_polls = 0
        /\ d_slept = 0
        /\ d_result = NoResponse
        /\ d_doc = NoDocument
        /\ d_post = NoPostResponse
        /\ d_sent = <<>>
        /\ d_report = NoReport
        /\ d_map = NoMap
        /\ d_archive = <<>>
        /\ package_xml = NoPackageXml
        /\ map_loads = 0
        /\ input = i
        /\ store = NoOrgDetails
        /\ now = 0
        /\ jwt_access_token = NoValue
        /\ jwt_access_token_expiry = NoExpiry
        /\ jwt_response = NoTokenResponse
        /\ jwt_ret = NoTokenCall
        /\ conversation_messages = <<SystemMessage>>
        /\ handlers = [h \in Events |-> NoHandler]
        /\ b_reqs = <<>>
        /\ b_result = NoBulkResult

InputNext ==
    \/ RunDeployCsvRecords
    \/ RunDeployCsvData
    \/ CreateJob
    \/ UploadData
    \/ RunDeploy
    \/ DeploySubmit
    \/ NextCall
    \/ ConnectToSalesforceOrg

InputSpec == InputInit /\ [][InputNext]_vars

FairSpec == Spec /\ WF_vars(Next)

\* a process that asks for the token again and again while time passes
TokenNext ==
    \/ GetJwtToken
    \/ Tick

TokenSpec == Init /\ [][TokenNext]_vars

\* the message events of the app, handled concurrently
BotNext ==
    \/ \E h \in Events : RespondMessage(h)
    \/ \E h \in Events : AgentInvoke(h)
    \/ \E h \in Events : AgentReturn(h)

BotSpec == Init /\ [][BotNext]_vars

TypeOK ==
    /\ pc \in {"idle", "create", "upload", "close", "poll", "after_poll",
               "fetch_success", "fetch_failed", "returned", "raised",
               "b_create", "b_upload", "b_close", "b_returned", "b_raised",
               "d_submit", "d_poll", "d_returned", "d_raised"}
    /\ elapsed_time \in 0..max_wait_time
    /\ sleeps \in 0..max_wait_time
    /\ state \in JobStates
    /\ d_polls \in 0..DeployPollCap
    /\ d_slept \in 0..(DeployPollCap * deploy_sleep)

(***************************************************************************)
(* Observations on the request log and the result.                         *)
(***************************************************************************)
StatusPolls == Cardinality({i \in DOMAIN reqlog : reqlog[i].kind = "status"})

\* the last request issued, a request of kind "none" before the first one
LastReq ==
    IF reqlog = <<>>
    THEN [kind |-> "none", ok |-> FALSE, sets_state |-> Absent,
          instance_url |-> NoValue, access_token |-> NoValue]
    ELSE reqlog[Len(reqlog)]

\* the last entry of the errors list, an entry without message if it is empty
LastError ==
    IF all_results.errors = <<>>
    THEN [step |-> Absent, record |-> Absent, error |-> <<>>]
    ELSE all_results.errors[Len(all_results.errors)]

IngestRunning == {"create", "upload", "close", "poll", "after_poll",
                  "fetch_success", "fetch_failed"}

IngestEnded == {"returned", "raised"}

CeilDiv(a, b) == (a + b - 1) \div b

\* the step tag reported for a failed request of a step
StepTag(kind) ==
    IF kind = "create" THEN "create_job"
    ELSE IF kind = "upload" THEN "upload_data"
    ELSE "close_job"

\* request b may directly follow request a
MayFollow(a, b) ==
    \/ a.kind = "create" /\ a.ok /\ b.kind = "upload"
    \/ a.kind = "upload" /\ a.ok /\ b.kind = "close"
    \/ a.kind = "close" /\ a.ok /\ b.kind = "status"
    \/ a.kind = "status" /\ a.ok /\ b.kind = "status"
    \/ a.kind = "status" /\ a.ok /\ b.kind = "successfulResults"
    \/ a.kind = "successfulResults" /\ b.kind = "failedResults"

(***************************************************************************)
(* C1: the requests of an ingest run are issued in the order create,       *)
(* upload, close, status polls, successfulResults, failedResults; a        *)
(* request of a later step is issued only directly after a successful      *)
(* request of the step before it, and the result fetches only after a      *)
(* status poll that read JobComplete.                                      *)
(***************************************************************************)
C1_RequestOrder ==
    /\ reqlog # <<>> => reqlog[1].kind = "create"
    /\ \A j \in 2..Len(reqlog) : MayFollow(reqlog[j-1], reqlog[j])
    /\ (\E j \in DOMAIN reqlog : reqlog[j].kind = "successfulResults")
          => state = "JobComplete"

C1_Witness ==
    /\ pc = "returned"
    /\ StatusPolls >= 2
    /\ LastReq.kind = "failedResults"
    /\ Len(reqlog) = StatusPolls + 5

(***************************************************************************)
(* C2: a failed create, upload or close request is the last request of     *)
(* the run and the only one of its step; the run has returned               *)
(* success=false with exactly one error, tagged with the step.             *)
(***************************************************************************)
C2_StepFailureAborts ==
    \A i \in DOMAIN reqlog :
        (reqlog[i].kind \in {"create", "upload", "close"} /\ ~reqlog[i].ok) =>
            /\ i = Len(reqlog)
            /\ \A j \in DOMAIN reqlog : reqlog[j].kind = reqlog[i].kind => j = i
            /\ pc = "returned"
            /\ all_results.success = FALSE
            /\ Len(all_results.errors) = 1
            /\ all_results.errors[1].step = StepTag(reqlog[i].kind)

C2_Witness ==
    /\ pc = "returned"
    /\ Len(reqlog) = 2
    /\ LastReq = IngestReq("upload", FALSE)
    /\ all_results.errors[1].step = "upload_data"

(***************************************************************************)
(* C3 as stated: after a failed create request the result reports          *)
(* success=false, no successful record and every submitted record as       *)
(* failed, tagged create_job.                                              *)
(***************************************************************************)
C3_AllRecordsReportedFailed ==
    (reqlog # <<>> /\ reqlog[1] = IngestReq("create", FALSE)) =>
        /\ pc = "returned"
        /\ all_results.success = FALSE
        /\ all_results.successful = 0
        /\ all_results.failed = all_results.total_records
        /\ all_results.errors[1].step = "create_job"

(***************************************************************************)
(* C3 amended: after a failed create request the run has returned with     *)
(* success=false, successful=0, failed=0, no created id, total_records     *)
(* equal to the number of submitted records, and a single error tagged     *)
(* create_job; the create request is the only request of the run.          *)
(***************************************************************************)
C3_CreateFailureResult ==
    (reqlog # <<>> /\ reqlog[1] = IngestReq("create", FALSE)) =>
        /\ pc = "returned"
        /\ Len(reqlog) = 1
        /\ all_results.success = FALSE
        /\ all_results.successful = 0
        /\ all_results.failed = 0
        /\ all_results.created_ids = <<>>
        /\ all_results.total_records = Len(records)
        /\ all_results.total_records > 0
        /\ Len(all_results.errors) = 1
        /\ all_results.errors[1].step = "create_job"

C3_Witness ==
    /\ pc = "returned"
    /\ reqlog = <<IngestReq("create", FALSE)>>
    /\ all_results.total_records = 2
    /\ all_results.errors[1].step = "create_job"

(***************************************************************************)
(* C4 as stated: no ingest call ends with an exception; in particular no   *)
(* call creates a remote job and then raises instead of returning.         *)
(***************************************************************************)
C4_IngestNeverRaises == pc # "raised"

(***************************************************************************)
(* C5: every ingest run ends; the polling loop is never entered with       *)
(* elapsed_time at max_wait_time or above, and a run whose elapsed time    *)
(* reached max_wait_time has returned success=false with the timeout       *)
(* error, its last request being a status poll.                            *)
(***************************************************************************)
C5_TimeoutResult ==
    /\ elapsed_time <= max_wait_time
    /\ elapsed_time >= max_wait_time =>
          /\ pc \in {"poll", "after_poll", "returned"}
          /\ LastReq = IngestReq("status", TRUE)
          /\ pc = "returned" =>
                /\ all_results.success = FALSE
                /\ Len(all_results.errors) = 1
                /\ LastError.step = "poll_status"
                /\ LastError.error = <<"Job did not complete within the maximum wait time">>
                /\ ret \in {"dict", "error_message"}

C5_IngestTerminates ==
    /\ []C5_TimeoutResult
    /\ (pc \in IngestRunning) ~> (pc \in IngestEnded)
    /\ (pc = "poll" /\ elapsed_time >= max_wait_time)
          ~> (pc = "returned" /\ LastError = TimeoutError)

C5_Witness ==
    /\ pc = "returned"
    /\ elapsed_time = max_wait_time
    /\ LastError = TimeoutError
    /\ state \notin {"JobComplete", "Failed", "Aborted"}

(***************************************************************************)
(* C6 as stated: a deploy run stops polling at the maximum wait: once the  *)
(* polling loop has slept max_wait_time seconds the run is no longer       *)
(* polling.                                                                *)
(***************************************************************************)
C6_DeployStopsAtMaxWait == d_slept >= max_wait_time => pc # "d_poll"

(***************************************************************************)
(* C7: once a status poll has read Failed or Aborted the run has returned  *)
(* and takes no further step: that poll is the last request, no sleep      *)
(* followed it, the result is success=false with a single error tagged     *)
(* job_processing, which is not the timeout error, and no result was       *)
(* fetched.                                                                *)
(***************************************************************************)
C7_FailedStateResult ==
    state \in {"Failed", "Aborted"} =>
        /\ pc = "returned"
        /\ LastReq = IngestReq("status", TRUE)
        /\ Len(reqlog) = 3 + StatusPolls
        /\ sleeps = StatusPolls - 1
        /\ elapsed_time = poll_interval * (StatusPolls - 1)
        /\ elapsed_time < max_wait_time
        /\ all_results.success = FALSE
        /\ Len(all_results.errors) = 1
        /\ LastError.step = "job_processing"
        /\ LastError.error[1] = "Job "
        /\ LastError.error[2] = (IF state = "Failed" THEN "failed" ELSE "aborted")
        /\ LastError.error # <<"Job did not complete within the maximum wait time">>
        /\ all_results.successful = 0
        /\ all_results.failed = 0

C7_FailedStateEndsRun ==
    /\ []C7_FailedStateResult
    /\ [][state \notin {"Failed", "Aborted"}]_vars

C7_Witness ==
    /\ pc = "returned"
    /\ state = "Aborted"
    /\ StatusPolls = 3
    /\ sleeps = 2
    /\ LastError.step = "job_processing"

(***************************************************************************)
(* C8: while the run is polling, one interval of sleep and of elapsed time *)
(* has been added per status request; a run that ended by timeout issued   *)
(* exactly max_wait_time / poll_interval (rounded up) = 100 status         *)
(* requests; the loop gives 2 requests for maxWait 6 and interval 3, and   *)
(* the rounded-up quotient for every small maxWait and interval.           *)
(***************************************************************************)
C8_PollCount ==
    /\ pc = "poll" =>
          /\ sleeps = StatusPolls
          /\ elapsed_time = poll_interval * StatusPolls
    /\ (pc = "returned" /\ LastError.error = <<"Job did not complete within the maximum wait time">>) =>
          /\ StatusPolls = CeilDiv(max_wait_time, poll_interval)
          /\ StatusPolls = 100
          /\ sleeps = StatusPolls
          /\ elapsed_time = poll_interval * StatusPolls
          /\ StatusPolls = PollsUntilTimeout(max_wait_time, poll_interval, 0)
          /\ PollsUntilTimeout(6, 3, 0) = 2
          /\ \A maxWait \in 1..10, interval \in 1..4 :
                PollsUntilTimeout(maxWait, interval, 0) = CeilDiv(maxWait, interval)

C8_Witness ==
    /\ pc = "returned"
    /\ StatusPolls = 100
    /\ elapsed_time = 300
    /\ LastError.error = <<"Job did not complete within the maximum wait time">>

(***************************************************************************)
(* C9: the error reported by a run that gave up by timeout differs in step *)
(* tag and in message from the error reported for every Failed or Aborted  *)
(* job, and the error reported by a run whose job failed or was aborted    *)
(* differs in step tag and in message from the timeout error.              *)
(***************************************************************************)
C9_TimeoutDistinctFromFailure ==
    (pc = "returned" /\ LastReq = IngestReq("status", TRUE)) =>
        /\ elapsed_time >= max_wait_time =>
              /\ Len(all_results.errors) = 1
              /\ \A s \in {"Failed", "Aborted"}, m \in ErrorMessages :
                    /\ LastError.step # JobProcessingError(s, m).step
                    /\ LastError.error # JobProcessingError(s, m).error
        /\ state \in {"Failed", "Aborted"} =>
              /\ Len(all_results.errors) = 1
              /\ LastError.step # "poll_status"
              /\ LastError.error # <<"Job did not complete within the maximum wait time">>
              /\ elapsed_time < max_wait_time

C9_WitnessTimeout ==
    /\ pc = "returned"
    /\ elapsed_time >= max_wait_time
    /\ LastError.step = "poll_status"

(***************************************************************************)
(* C10, as stated: the deploy polling loop goes on exactly while the       *)
(* responses have done=false, sleeping 3 s after each of them, and         *)
(* returns the first response with done=true whatever its status string.   *)
(***************************************************************************)
C10_DoneIsTerminal ==
    /\ (pc = "d_poll" /\ d_polls > 0) =>
          /\ ~d_resp.done
          /\ d_polls < DeployPollCap => d_slept = deploy_sleep * d_polls
    /\ d_resp.done =>
          /\ pc = "d_returned"
          /\ d_result = d_resp
          /\ d_polls < DeployPollCap => d_slept = deploy_sleep * (d_polls - 1)
    /\ (pc = "d_returned" /\ d_result # NoResponse) => d_result.done

(***************************************************************************)
(* C11: a successful status poll that reads any state other than           *)
(* JobComplete, Failed and Aborted (InProgress, Open, UploadComplete, an   *)
(* unknown value, no value) leaves the run in the polling loop with one    *)
(* more sleep and one more interval of elapsed time, and changes neither   *)
(* the result nor the returned value; while the run is polling no error    *)
(* has been recorded.                                                      *)
(***************************************************************************)
C11_NonTerminalStates == JobStates \ {"JobComplete", "Failed", "Aborted"}

C11_PollingHasNoError ==
    (pc = "poll" /\ StatusPolls > 0) =>
        /\ state \in C11_NonTerminalStates
        /\ all_results.errors = <<>>
        /\ all_results.success = TRUE
        /\ ret = "none"

C11_NonTerminalStep ==
    (/\ pc = "poll"
     /\ reqlog' = Append(reqlog, IngestReq("status", TRUE))
     /\ state' \in C11_NonTerminalStates)
    => /\ pc' = "poll"
       /\ sleeps' = sleeps + 1
       /\ elapsed_time' = elapsed_time + poll_interval
       /\ all_results' = all_results
       /\ ret' = ret
       /\ exc' = exc

C11_NonTerminalKeepsPolling ==
    /\ []C11_PollingHasNoError
    /\ [][C11_NonTerminalStep]_vars

C11_Witness ==
    /\ pc = "poll"
    /\ state = "Paused"
    /\ StatusPolls = 2
    /\ elapsed_time = 2 * poll_interval
    /\ all_results.errors = <<>>

(***************************************************************************)
(* C12: an ingest call with an empty record list short-circuits: it        *)
(* returns the no-records result of its entry point (bulk_upload_accounts: *)
(* {jobId: None, state: NoRecords}; _deploy_csv_records_internal: the      *)
(* failed result with the single error "No records provided";              *)
(* deploy_csv_records: its no-valid-records message) and no network        *)
(* request is performed at all.                                            *)
(***************************************************************************)
IngestEntries == {"deploy_csv_records", "deploy_csv_data", "bulk_upload_accounts"}

Requested(kind, ok) == \E i \in DOMAIN reqlog : reqlog[i] = IngestReq(kind, ok)

C13_FetchFailureNotFatal ==
    /\ Requested("successfulResults", FALSE) =>
          /\ state = "JobComplete"
          /\ all_results.successful = 0
          /\ all_results.created_ids = <<>>
          /\ pc \in {"fetch_failed", "returned"}
          /\ pc = "returned" =>
                /\ Requested("failedResults", TRUE) \/ Requested("failedResults", FALSE)
                /\ ret # "none"
          /\ Len(all_results.errors) = all_results.failed
          /\ \A i \in DOMAIN all_results.errors :
                all_results.errors[i] = FailedRowError(failed_content, i)
    /\ Requested("failedResults", FALSE) =>
          /\ state = "JobComplete"
          /\ pc = "returned"
          /\ ret # "none"
          /\ exc = "none"
          /\ all_results.failed = 0
          /\ all_results.errors = <<>>
          /\ all_results.success = TRUE

\* both fetches failed and the run returned a result with both counts 0
C13_Witness ==
    /\ pc = "returned"
    /\ Requested("successfulResults", FALSE)
    /\ Requested("failedResults", FALSE)
    /\ all_results.successful = 0
    /\ all_results.failed = 0
    /\ all_results.errors = <<>>
    /\ ret # "none"

(***************************************************************************)
(* C14: for every ingest run whose job reached JobComplete the returned    *)
(* success flag is true exactly when the failed count is 0, whatever the   *)
(* successful count is and whether or not the result fetches succeeded;    *)
(* what deploy_csv_records hands back follows the flag.                    *)
(***************************************************************************)
C14_SuccessIffNoFailedRows ==
    (pc = "returned" /\ state = "JobComplete") =>
        /\ all_results.success <=> (all_results.failed = 0)
        /\ entry = "deploy_csv_records" =>
              (ret = "success_message" <=> all_results.failed = 0)

\* a completed job with one created and one failed row is not a success
C14_Witness ==
    /\ pc = "returned"
    /\ state = "JobComplete"
    /\ all_results.successful = 1
    /\ all_results.failed = 1
    /\ all_results.success = FALSE

(***************************************************************************)
(* C15: when the successfulResults fetch succeeds, the successful count is *)
(* the number of data rows of the returned CSV and created_ids holds those *)
(* rows' sf__Id values in row order (none if the CSV has no such column).  *)
(* One row with sf__Id 001xx and no failed row gives success = true,       *)
(* successful = 1, failed = 0, created_ids = [001xx].                      *)
(***************************************************************************)
DataRows(c) == IF c.empty THEN 0 ELSE c.n

C15_SuccessfulRowsCounted ==
    Requested("successfulResults", TRUE) =>
        /\ all_results.successful = DataRows(success_content)
        /\ Len(all_results.created_ids) =
              IF success_content.hasId THEN DataRows(success_content) ELSE 0
        /\ \A i \in DOMAIN all_results.created_ids :
              all_results.created_ids[i] = IdPool[i]
        /\ (/\ pc = "returned"
            /\ success_content = [empty |-> FALSE, hasId |-> TRUE, n |-> 1]
            /\ DataRows(failed_content) = 0)
           => /\ all_results.success = TRUE
              /\ all_results.successful = 1
              /\ all_results.failed = 0
              /\ all_results.created_ids = <<"001xx">>

\* two created rows, reported in the order of the CSV
C15_Witness ==
    /\ pc = "returned"
    /\ Requested("successfulResults", TRUE)
    /\ success_content = [empty |-> FALSE, hasId |-> TRUE, n |-> 2]
    /\ all_results.successful = 2
    /\ all_results.created_ids = <<"001xx", "001yy">>

(***************************************************************************)
(* C16: when the failedResults fetch succeeds, the failed count is the     *)
(* number of data rows of the returned CSV and the failed rows contribute, *)
(* in row order, exactly one failure entry each, holding the row's record  *)
(* identifier and its sf__Error message ("Unknown" / "Unknown error" when  *)
(* the CSV lacks the column).                                              *)
(***************************************************************************)
C16_FailedRowsReported ==
    Requested("failedResults", TRUE) =>
        /\ pc = "returned"
        /\ all_results.failed = DataRows(failed_content)
        /\ Len(all_results.errors) = DataRows(failed_content)
        /\ \A i \in DOMAIN all_results.errors :
              /\ all_results.errors[i].step = Absent
              /\ all_results.errors[i].record =
                    IF failed_content.hasId THEN IdPool[i] ELSE "Unknown"
              /\ all_results.errors[i].error =
                    IF failed_content.hasError THEN <<ErrPool[i]>>
                    ELSE <<"Unknown error">>

\* two failed rows, reported in the order of the CSV
C16_Witness ==
    /\ pc = "returned"
    /\ Requested("failedResults", TRUE)
    /\ failed_content = [empty |-> FALSE, hasId |-> TRUE, hasError |-> TRUE, n |-> 2]
    /\ all_results.failed = 2
    /\ Len(all_results.errors) = 2
    /\ all_results.errors[1].record = "001xx"
    /\ all_results.errors[1].error = <<"REQUIRED_FIELD_MISSING">>
    /\ all_results.errors[2].record = "001yy"
    /\ all_results.errors[2].error = <<"DUPLICATE_VALUE">>

(***************************************************************************)
(* C17: the outcome reported for a deploy run that reached done = true is  *)
(* success exactly when the platform's success boolean is true, whatever   *)
(* the status string, numberComponentErrors and details are:               *)
(* deploy_metadata answers with its success message exactly in that case,  *)
(* deploy_metadata_xml hands the deployResult back unchanged.              *)
(***************************************************************************)
C17_DeploySuccessIsPlatformFlag ==
    d_result.done =>
        /\ pc = "d_returned"
        /\ d_result = d_resp
        /\ entry = "deploy_metadata" =>
              /\ d_report.kind \in {"success", "failed"}
              /\ d_report.kind = "success" <=> d_result.success
              /\ ret = "success_message" <=> d_result.success
              /\ ret = "error_message" <=> ~d_result.success
        /\ entry = "deploy_metadata_xml" => ret = "dict"

\* a success although status, error count and details speak of a failure
C17_Witness ==
    /\ pc = "d_returned"
    /\ entry = "deploy_metadata"
    /\ d_result.done
    /\ d_result.success
    /\ d_result.status = "Failed"
    /\ d_result.numberComponentErrors = 1
    /\ Len(d_result.details.componentFailures) = 1
    /\ d_report.kind = "success"

(***************************************************************************)
(* C18: when a deploy reaches done = true with success = false, the        *)
(* reported failure list has exactly one entry per element of              *)
(* details.componentFailures, in order, each with that element's fullName  *)
(* and problem ("Unknown" / "Unknown error" for a missing key); the single *)
(* failure {fullName: X, problem: required field missing} gives a list     *)
(* with exactly that entry.                                                *)
(***************************************************************************)
KeyOr(value, default) == IF value = Absent THEN default ELSE value

C18_FailuresReportedInOrder ==
    (/\ d_result.done
     /\ ~d_result.success
     /\ entry = "deploy_metadata"
     /\ d_result.details.present
     /\ d_result.details.hasFailures)
    => LET failures == d_result.details.componentFailures
       IN  /\ d_report.kind = "failed"
           /\ d_report.error_count = d_result.numberComponentErrors
           /\ Len(d_report.failures) = Len(failures)
           /\ \A i \in DOMAIN failures :
                 /\ d_report.failures[i].fullName = KeyOr(failures[i].fullName, "Unknown")
                 /\ d_report.failures[i].problem = KeyOr(failures[i].problem, "Unknown error")
           /\ failures = <<[fullName |-> "X", problem |-> "required field missing"]>>
                 => d_report.failures = failures

\* two component failures, reported in the order of the response
C18_Witness ==
    /\ pc = "d_returned"
    /\ entry = "deploy_metadata"
    /\ d_result.done
    /\ ~d_result.success
    /\ d_result.details.componentFailures =
          <<[fullName |-> "X", problem |-> "required field missing"],
            [fullName |-> Absent, problem |-> Absent]>>
    /\ d_report.failures =
          <<[fullName |-> "X", problem |-> "required field missing"],
            [fullName |-> "Unknown", problem |-> "Unknown error"]>>

(***************************************************************************)
(* C19, as stated: when the deploy POST answers with a status >= 300 the   *)
(* run fails with a submission error that carries the response body, the   *)
(* POST is not retried and no status poll is issued.  The code prints the  *)
(* body and returns None, so no outcome carries it.                        *)
(***************************************************************************)
C19_SubmissionErrorCarriesBody ==
    d_post.status_code >= 300 =>
        /\ d_posts = 1
        /\ d_polls = 0
        /\ entry = "deploy_metadata" => d_report.text = d_post.text
        /\ entry = "deploy_metadata_xml" => (exc # "none" \/ d_result # NoResponse)

(***************************************************************************)
(* C19, amended: when the deploy POST answers with a status >= 300 the     *)
(* run ends at once: deploy_metadata_xml returns None without raising,     *)
(* deploy_metadata returns its fixed request-failed message without the    *)
(* response body; the POST is not retried and no status poll is issued.    *)
(***************************************************************************)
C19_RejectedSubmitReturnsNone ==
    d_post.status_code >= 300 =>
        /\ pc = "d_returned"
        /\ d_posts = 1
        /\ d_polls = 0
        /\ d_slept = 0
        /\ d_result = NoResponse
        /\ exc = "none"
        /\ entry = "deploy_metadata" =>
              /\ ret = "request_failed_message"
              /\ d_report.kind = "request_failed"
              /\ d_report.text = Absent
        /\ entry = "deploy_metadata_xml" => ret = "None"

C19_Witness ==
    /\ pc = "d_returned"
    /\ entry = "deploy_metadata"
    /\ d_post = [status_code |-> 300, text |-> "body"]
    /\ d_posts = 1
    /\ d_polls = 0
    /\ d_report = RequestFailedReport

(***************************************************************************)
(* C20: no run creates more than one remote job, whatever the remote       *)
(* answers: a deploy run that reaches the submit step issues exactly one   *)
(* POST to the deploy endpoint and none if packaging fails, an ingest run  *)
(* issues at most one create-job POST, and a job that failed is not        *)
(* submitted again.                                                        *)
(***************************************************************************)
CreatePosts(log) == Cardinality({i \in DOMAIN log : log[i].kind = "create"})

C20_AtMostOneRemoteJob ==
    /\ d_posts <= 1
    /\ pc = "d_submit" => d_posts = 0
    /\ (pc = "d_poll" \/ d_polls > 0) => d_posts = 1
    /\ (/\ pc \in {"d_returned", "d_raised"}
        /\ d_archive # <<>>) => d_posts = 1
    /\ (/\ pc \in {"d_returned", "d_raised"}
        /\ d_archive = <<>>) =>
           /\ d_posts = 0
           /\ d_polls = 0
           /\ d_post = NoPostResponse
    /\ CreatePosts(reqlog) <= 1
    /\ CreatePosts(b_reqs) <= 1
    /\ pc \in (IngestRunning \ {"create"}) => CreatePosts(reqlog) = 1
    /\ (state \in {"Failed", "Aborted"} /\ pc = "returned") => CreatePosts(reqlog) = 1

\* a deploy that the platform reported as failed, after several polls, with
\* its single POST
C20_Witness ==
    /\ pc = "d_returned"
    /\ d_result.done
    /\ ~d_result.success
    /\ d_polls = 3
    /\ d_posts = 1

(***************************************************************************)
(* C21, as stated: the local system never issues a request that writes the *)
(* job's state, it only reads the state by polling.  The close step of     *)
(* both ingest entry points sends {"state": "UploadComplete"}.             *)
(***************************************************************************)
C21_NeverWritesJobState ==
    /\ \A i \in DOMAIN reqlog : reqlog[i].sets_state = Absent
    /\ \A i \in DOMAIN b_reqs : b_reqs[i].sets_state = Absent

(***************************************************************************)
(* C21, amended: the only request by which the local system writes the     *)
(* job's state is the close PATCH, which sets UploadComplete once, right   *)
(* after the successful upload; every later request only reads, and the    *)
(* state the run holds changes only by a successful status poll.           *)
(***************************************************************************)
OnlyCloseWrites(log) ==
    \A i \in DOMAIN log :
        /\ log[i].sets_state # Absent <=> log[i].kind = "close"
        /\ log[i].kind = "close" =>
              /\ log[i].sets_state = "UploadComplete"
              /\ i = 3
              /\ log[2].kind = "upload" /\ log[2].ok
        /\ i > 3 => log[i].kind \in {"status", "successfulResults", "failedResults"}

C21_CloseIsTheOnlyWrite ==
    /\ OnlyCloseWrites(reqlog)
    /\ OnlyCloseWrites(b_reqs)
    /\ pc \in {"poll", "after_poll", "fetch_success", "fetch_failed"} =>
          reqlog[3].sets_state = "UploadComplete"

C21_StateOnlyRead ==
    state' # state =>
        /\ pc = "poll"
        /\ reqlog' = Append(reqlog, IngestReq("status", TRUE))

C21_JobStateWrittenOnlyByClose ==
    /\ []C21_CloseIsTheOnlyWrite
    /\ [][C21_StateOnlyRead]_vars

\* the job was closed by the local PATCH and is now only polled
C21_Witness ==
    /\ pc = "poll"
    /\ Len(reqlog) = 5
    /\ reqlog[3].kind = "close"
    /\ reqlog[3].sets_state = "UploadComplete"
    /\ reqlog[4].sets_state = Absent
    /\ state = "InProgress"

(***************************************************************************)
(* C22: a metadata document without a fullName element is a fatal input    *)
(* error: the deploy run ends with the invalid-document error (raised by   *)
(* deploy_metadata_xml, returned as an error message by deploy_metadata)   *)
(* before the table is read, before any archive is built and before any    *)
(* remote request is issued.                                               *)
(***************************************************************************)
DeployCalled == d_doc.type # NoValue

C22_MissingFullNameIsFatal ==
    (DeployCalled /\ ~d_doc.fullName.present) =>
        /\ pc \in {"d_returned", "d_raised"}
        /\ d_map = NoMap
        /\ d_archive = <<>>
        /\ d_posts = 0
        /\ d_polls = 0
        /\ d_post = NoPostResponse
        /\ d_result = NoResponse
        /\ entry = "deploy_metadata_xml" =>
              /\ pc = "d_raised"
              /\ exc = MissingFullName
        /\ entry = "deploy_metadata" =>
              /\ pc = "d_returned"
              /\ ret = "error_message"
              /\ d_report.kind = "exception"
              /\ d_report.text = MissingFullName

C22_Witness ==
    /\ entry = "deploy_metadata"
    /\ pc = "d_returned"
    /\ d_doc.type = "RemoteSiteSetting"
    /\ ~d_doc.fullName.present
    /\ d_report.text = MissingFullName
    /\ d_posts = 0

(***************************************************************************)
(* C23, as stated: resolving a type name against the table fails with a    *)
(* configuration error when no entry matches the type name and when more   *)
(* than one entry matches it, it succeeds only when exactly one entry      *)
(* matches, and on failure no remote request is issued.  The code takes    *)
(* the first matching folder when several match.                           *)
(***************************************************************************)
MatchingEntries(map, type) ==
    {<<f, i>> \in (DOMAIN map) \X (1..2) :
        i \in DOMAIN map[f].entries /\ map[f].entries[i].type = type}

ConfigurationFailed ==
    /\ pc \in {"d_returned", "d_raised"}
    /\ d_archive = <<>>
    /\ d_posts = 0
    /\ entry = "deploy_metadata_xml" => exc = NoConfiguration
    /\ entry = "deploy_metadata" => d_report.text = NoConfiguration

C23_ResolveNeedsExactlyOneMatch ==
    (DeployCalled /\ d_map # NoMap) =>
        /\ Cardinality(MatchingEntries(d_map, d_doc.type)) # 1 => ConfigurationFailed
        /\ Cardinality(MatchingEntries(d_map, d_doc.type)) = 1 => ~ConfigurationFailed

(***************************************************************************)
(* C24, as stated: the configuration table is loaded once per process and  *)
(* is read-only afterwards: over any sequence of deploy calls the table    *)
(* resource is read at most once, and a missing resource file is detected  *)
(* at startup, not during a deploy call.  The code opens metadata_map.yml  *)
(* in every call of deploy_metadata_xml and looks for the file there.      *)
(***************************************************************************)
C24_TableLoadedOnce ==
    /\ map_loads <= 1
    /\ exc # MissingMapFile
    /\ d_report.text # MissingMapFile

(***************************************************************************)
(* C25, as stated: in the CSV body uploaded by the ingest pipeline no      *)
(* record is submitted with an empty-string or whitespace-only field       *)
(* value: a field that is empty for a record is treated as absent for that *)
(* record, also when another record of the batch has a value for it.  The  *)
(* header is taken from the first record and csv.DictWriter fills the      *)
(* fields a later record lacks with the empty string.                      *)
(***************************************************************************)
Uploaded == \E i \in DOMAIN reqlog : reqlog[i].kind = "upload"

C25_NoEmptyValueUploaded ==
    Uploaded =>
        \A i \in DOMAIN csv_content.rows :
            \A j \in DOMAIN csv_content.rows[i] :
                Strip(csv_content.rows[i][j]) # ""

(***************************************************************************)
(* C26: an input row all of whose values are empty or whitespace-only      *)
(* yields no columns and is skipped entirely: it is not counted in         *)
(* total_records and has no data row in the uploaded CSV; if every input   *)
(* row is such a row, deploy_csv_records returns an error without issuing  *)
(* any network request.                                                    *)
(***************************************************************************)
BlankRow(row) == \A k \in DOMAIN row : row[k] \in {"", " "}

RowsWithValues(rows) == Cardinality({i \in DOMAIN rows : ~BlankRow(rows[i])})

C26_BlankRowsSkipped ==
    (input.kind = "csv" /\ entry # "none") =>
        /\ all_results.total_records = RowsWithValues(input.rows)
        /\ Len(records) = RowsWithValues(input.rows)
        /\ Uploaded =>
              /\ Len(csv_content.rows) = RowsWithValues(input.rows)
              /\ \A i \in DOMAIN csv_content.rows :
                    \E j \in DOMAIN csv_content.rows[i] :
                        csv_content.rows[i][j] \notin {"", " "}
        /\ (RowsWithValues(input.rows) = 0 /\ entry = "deploy_csv_records") =>
              /\ pc = "returned"
              /\ ret = "no_valid_records_message"
              /\ reqlog = <<>>

\* the rows Name=Acme and Name="" (no Phone): header Name, one data row
C26_Witness ==
    /\ input.rows = <<[Name |-> "Acme", Phone |-> ""], [Name |-> "", Phone |-> " "]>>
    /\ Uploaded
    /\ all_results.total_records = 1
    /\ csv_content = [header |-> <<"Name">>, rows |-> << <<"Acme">> >>]

(***************************************************************************)
(* Observations on a built package.                                        *)
(***************************************************************************)
Packaged == d_archive # <<>>

\* the document passed parsing and resolution
PassedResolution ==
    /\ DeployCalled
    /\ d_doc.fullName.present
    /\ d_map # NoMap
    /\ MatchingEntries(d_map, d_doc.type) # {}

\* folder and file name of the first archive entry
ArchiveFolder == d_archive[1].path[1]

ArchiveFilename == SubSeq(d_archive[1].path, 3, Len(d_archive[1].path))

\* the file name without a final metadata suffix
WithoutSuffix(name) ==
    IF name # <<>> /\ name[Len(name)] = MetaSuffix
    THEN SubSeq(name, 1, Len(name) - 1) ELSE name

NoBlank(text) == \A i \in DOMAIN text : text[i] # " "

(***************************************************************************)
(* C27: for every metadata document that passes parsing and resolution     *)
(* the archive built for it has exactly two entries, the metadata file at  *)
(* folderName/filename and the manifest package.xml, and the two entry     *)
(* names are distinct.  (No archive is built for a RemoteSiteSetting whose *)
(* fullName element is empty: the call ends with an AttributeError.)       *)
(***************************************************************************)
C27_ArchiveHasTwoEntries ==
    /\ Packaged => PassedResolution
    /\ (PassedResolution /\ ~Packaged) =>
          /\ d_doc.type = "RemoteSiteSetting"
          /\ d_doc.fullName.text = <<>>
          /\ pc \in {"d_returned", "d_raised"}
          /\ d_posts = 0
    /\ Packaged =>
          /\ Len(d_archive) = 2
          /\ d_archive[1].content = "metadata_xml"
          /\ \E f \in DOMAIN d_map : d_map[f].folder = ArchiveFolder
          /\ d_archive[1].path[2] = "/"
          /\ Len(ArchiveFilename) >= 2
          /\ d_archive[2] = [path |-> <<"package.xml">>, content |-> "package_xml"]
          /\ d_archive[1].path # d_archive[2].path

C27_Witness ==
    /\ pc = "d_submit"
    /\ Len(d_archive) = 2
    /\ d_archive[1].path =
          <<"remoteSiteSettings", "/", "MySite", ".", "remoteSite", MetaSuffix>>
    /\ d_archive[2].path = <<"package.xml">>

(***************************************************************************)
(* C28: the metadata filename before the metadata suffix is selected by    *)
(* type: for CustomObject the label with blanks removed followed by __c    *)
(* and the extension, or fullName plus extension when there is no label    *)
(* text; for RemoteSiteSetting fullName with blanks removed plus           *)
(* extension; for SurveySettings the literal Survey plus extension; for    *)
(* every other type fullName plus extension, unchanged.                    *)
(***************************************************************************)
C28_FilenameByType ==
    Packaged =>
        LET ext  == Extension(d_map, d_doc.type)
            name == IF d_doc.fullName.text = <<>> THEN <<"None">>
                    ELSE d_doc.fullName.text
            base == WithoutSuffix(ArchiveFilename)
            want(text) == WithoutSuffix(text \o ext)
        IN  /\ (d_doc.type = "CustomObject" /\ d_doc.label.present
                                            /\ d_doc.label.text # <<>>) =>
                  /\ base = want(RemoveSpaces(d_doc.label.text) \o <<"__c.">>)
                  /\ NoBlank(base)
            /\ (d_doc.type = "CustomObject" /\ ~(d_doc.label.present
                                              /\ d_doc.label.text # <<>>)) =>
                  base = want(name \o <<".">>)
            /\ d_doc.type = "RemoteSiteSetting" =>
                  /\ base = want(RemoveSpaces(name) \o <<".">>)
                  /\ NoBlank(base)
            /\ d_doc.type = "SurveySettings" => base = want(<<"Survey", ".">>)
            /\ d_doc.type \notin {"CustomObject", "RemoteSiteSetting", "SurveySettings"} =>
                  base = want(name \o <<".">>)

\* a CustomObject with label "My Object" gets MyObject__c.object-meta.xml
C28_Witness ==
    /\ Packaged
    /\ d_doc.type = "CustomObject"
    /\ d_doc.label = Element(<<"My", " ", "Object">>)
    /\ ArchiveFilename = <<"My", "Object", "__c.", "object", MetaSuffix>>

(***************************************************************************)
(* C29: for every type, fullName, label and extension the final metadata   *)
(* filename ends with the suffix -meta.xml, and the suffix is appended     *)
(* only when the computed name does not already end with it, so it never   *)
(* appears twice at the end.                                               *)
(***************************************************************************)
C29_SuffixExactlyOnce ==
    Packaged =>
        LET base == BaseFilename(d_doc, Extension(d_map, d_doc.type))
            n    == Len(ArchiveFilename)
        IN  /\ ArchiveFilename[n] = MetaSuffix
            /\ ArchiveFilename[n - 1] # MetaSuffix
            /\ base[Len(base)] = MetaSuffix => ArchiveFilename = base
            /\ base[Len(base)] # MetaSuffix => ArchiveFilename = base \o <<MetaSuffix>>

\* an extension that already carries the suffix: nothing is appended
C29_Witness ==
    /\ Packaged
    /\ d_doc.type = "Flow"
    /\ Extension(d_map, d_doc.type) = <<"flow", MetaSuffix>>
    /\ ArchiveFilename = <<"MySite", ".", "flow", MetaSuffix>>

(***************************************************************************)
(* C30: the category name of the manifest is the literal Settings exactly  *)
(* when the resolved folder is the settings folder and the type name of    *)
(* the document otherwise; in both cases the manifest has exactly one      *)
(* member, the fullName of the document, unmodified (the word None for an  *)
(* empty fullName element).                                                *)
(***************************************************************************)
C30_ManifestCategory ==
    /\ Packaged =>
          /\ Len(package_xml.members) = 1
          /\ d_doc.fullName.text # <<>> => package_xml.members[1] = d_doc.fullName.text
          /\ d_doc.fullName.text = <<>> => package_xml.members[1] = <<"None">>
          /\ ArchiveFolder = "settings" => package_xml.name = "Settings"
          /\ ArchiveFolder # "settings" => package_xml.name = d_doc.type
    /\ ~Packaged => package_xml = NoPackageXml

\* a settings document whose name holds a blank: category Settings, the
\* member keeps the blank
C30_Witness ==
    /\ Packaged
    /\ d_doc.type = "SurveySettings"
    /\ ArchiveFolder = "settings"
    /\ package_xml = [members |-> << <<"My", " ", "Site">> >>, name |-> "Settings"]

(***************************************************************************)
(* C31, as stated: the deployOptions sent with every deploy POST have      *)
(* rollbackOnError true, testLevel NoTestRun and every other boolean       *)
(* toggle false.                                                           *)
(***************************************************************************)
C31_AllOtherTogglesOff ==
    \A i \in DOMAIN d_sent :
        LET o == d_sent[i].deployOptions IN
            /\ o.rollbackOnError
            /\ o.testLevel = "NoTestRun"
            /\ \A k \in {"allowMissingFiles", "autoUpdatePackage", "checkOnly",
                          "ignoreWarnings", "performRetrieve", "purgeOnDelete",
                          "singlePackage"} : ~o[k]

(***************************************************************************)
(* C31, amended: the deployOptions sent with every deploy POST are the     *)
(* same for every document: rollbackOnError and singlePackage are true,    *)
(* testLevel is NoTestRun, runTests is empty and every other boolean       *)
(* toggle is false.                                                        *)
(***************************************************************************)
C31_FixedDeployOptions ==
    \A i \in DOMAIN d_sent :
        LET o == d_sent[i].deployOptions IN
            /\ o.rollbackOnError
            /\ o.singlePackage
            /\ o.testLevel = "NoTestRun"
            /\ o.runTests = <<>>
            /\ \A k \in {"allowMissingFiles", "autoUpdatePackage", "checkOnly",
                          "ignoreWarnings", "performRetrieve", "purgeOnDelete"} : ~o[k]

\* the POST for a custom object with a label was sent and accepted
C31_Witness ==
    /\ Len(d_sent) = 1
    /\ d_posts = 1
    /\ d_doc.type = "CustomObject"
    /\ d_doc.label.present
    /\ d_post.status_code = 201
    /\ pc = "d_poll"

(***************************************************************************)
(* C32, as stated: once connect_to_salesforce_org has stored credentials,  *)
(* every request of a metadata deployment and of a data deployment goes    *)
(* to the stored instance URL with the stored access token, those of the   *)
(* latest connect.                                                         *)
(***************************************************************************)
C32_DeploymentsUseStoredCredentials ==
    store # NoOrgDetails =>
        /\ \A i \in DOMAIN d_sent :
              /\ d_sent[i].instance_url = store.instance_url
              /\ d_sent[i].access_token = store.access_token
        /\ \A i \in DOMAIN reqlog :
              /\ reqlog[i].instance_url = store.instance_url
              /\ reqlog[i].access_token = store.access_token

(***************************************************************************)
(* C33, as stated: the folder and the extension of an archived document    *)
(* are those of the table entry of the document's type, also in a folder   *)
(* that lists several types.                                               *)
(***************************************************************************)
C33_ExtensionOfMatchingEntry ==
    (Packaged /\ Cardinality(MatchingEntries(d_map, d_doc.type)) = 1) =>
        \E f \in DOMAIN d_map :
            \E j \in DOMAIN d_map[f].entries :
                /\ d_map[f].entries[j].type = d_doc.type
                /\ ArchiveFolder = d_map[f].folder
                /\ ArchiveFilename = MetadataFilename(d_doc, d_map[f].entries[j].extension)

(***************************************************************************)
(* C34, as stated: a deploy that ends done with success=false and without  *)
(* a details object, or with details that have no componentFailures, does  *)
(* not make an entry point raise: deploy_metadata_xml returns the result   *)
(* and deploy_metadata returns the failure message with no failure lines.  *)
(***************************************************************************)
C34_MissingDetailsDoNotRaise ==
    (/\ pc \in {"d_returned", "d_raised"}
     /\ d_resp.done
     /\ ~d_resp.success
     /\ ~d_resp.details.hasFailures) =>
        /\ pc = "d_returned"
        /\ d_result = d_resp
        /\ entry = "deploy_metadata" =>
              /\ d_report.kind = "failed"
              /\ d_report.failures = <<>>

(***************************************************************************)
(* C35: a request error on an ingest status poll ends the run: the result  *)
(* has success=false, exactly one error, tagged poll_status, and the       *)
(* counts successful and failed are 0; the failed poll is the last request *)
(* of the run, so it is not retried and no other poll and no result fetch  *)
(* follows it.                                                             *)
(***************************************************************************)
C35_PollErrorIsTerminal ==
    \A i \in DOMAIN reqlog :
        (reqlog[i].kind = "status" /\ ~reqlog[i].ok) =>
            /\ i = Len(reqlog)
            /\ pc = "returned"
            /\ ~all_results.success
            /\ Len(all_results.errors) = 1
            /\ all_results.errors[1].step = "poll_status"
            /\ all_results.successful = 0
            /\ all_results.failed = 0
            /\ success_content = EmptySuccessContent
            /\ failed_content = EmptyFailedContent

\* the third status poll of a run failed
C35_Witness ==
    /\ pc = "returned"
    /\ Len(reqlog) = 6
    /\ reqlog[4] = IngestReq("status", TRUE)
    /\ reqlog[5] = IngestReq("status", TRUE)
    /\ reqlog[6] = IngestReq("status", FALSE)
    /\ all_results.errors[1].error = <<"Error polling job status: ", "HTTPError">>

(***************************************************************************)
(* C36: a run in which a status poll observed JobComplete, be it the last  *)
(* poll the loop allows before max_wait_time, is never reported as a       *)
(* timeout: it goes on to the result fetches; the timeout error is only in *)
(* results of runs in which no poll observed JobComplete.                  *)
(***************************************************************************)
C36_CompleteIsNeverTimeout ==
    /\ state = "JobComplete" =>
          /\ elapsed_time < max_wait_time
          /\ pc \in {"after_poll", "fetch_success", "fetch_failed", "returned", "raised"}
          /\ \A i \in DOMAIN all_results.errors :
                all_results.errors[i].error #
                    <<"Job did not complete within the maximum wait time">>
          /\ pc = "returned" =>
                \E i \in DOMAIN reqlog : reqlog[i].kind = "successfulResults"
    /\ (\E i \in DOMAIN all_results.errors :
            all_results.errors[i].error =
                <<"Job did not complete within the maximum wait time">>) =>
          /\ state # "JobComplete"
          /\ elapsed_time >= max_wait_time

\* the last poll the loop allows observed JobComplete and the results were
\* collected
C36_Witness ==
    /\ state = "JobComplete"
    /\ elapsed_time = max_wait_time - poll_interval
    /\ sleeps = 99
    /\ pc = "returned"
    /\ all_results.success

(***************************************************************************)
(* C37: a result of _deploy_csv_records_internal with success=true comes   *)
(* from a run whose create, upload and close requests succeeded and in     *)
(* which a status poll observed JobComplete; a run ended by a failed step, *)
(* a Failed or Aborted job, a poll error or a timeout returns              *)
(* success=false with successful=0, failed=0 and no created ids.           *)
(***************************************************************************)
C37_ResultInvariants ==
    (pc = "returned" /\ entry \in IngestEntries /\ records # <<>>) =>
        /\ all_results.success =>
              /\ Len(reqlog) >= 4
              /\ reqlog[1].kind = "create" /\ reqlog[1].ok
              /\ reqlog[2].kind = "upload" /\ reqlog[2].ok
              /\ reqlog[3].kind = "close" /\ reqlog[3].ok
              /\ \E i \in DOMAIN reqlog : reqlog[i].kind = "status" /\ reqlog[i].ok
              /\ state = "JobComplete"
        /\ (\/ \E i \in DOMAIN reqlog : ~reqlog[i].ok /\ reqlog[i].kind \in
                                             {"create", "upload", "close", "status"}
            \/ state \in {"Failed", "Aborted"}
            \/ elapsed_time >= max_wait_time) =>
              /\ ~all_results.success
              /\ all_results.successful = 0
              /\ all_results.failed = 0
              /\ all_results.created_ids = <<>>

\* a run that gave up by timeout after a full series of polls
C37_Witness ==
    /\ pc = "returned"
    /\ entry \in IngestEntries
    /\ elapsed_time >= max_wait_time
    /\ ~all_results.success
    /\ all_results.total_records = 2

(***************************************************************************)
(* C38, as stated: get_jwt_token returns the cached token, without a       *)
(* request, exactly when a token is cached and the time is more than 120 s *)
(* before its expiry, so that a token returned from the cache is never     *)
(* within 120 s of its expiry; otherwise it requests a token and either    *)
(* caches it with expiry = time of the request + expires_in and returns    *)
(* it, or raises and leaves the cached token and expiry as they were.      *)
(***************************************************************************)
C38_TokenCacheContract ==
    [][GetJwtToken =>
        IF /\ jwt_access_token # NoValue
           /\ jwt_access_token_expiry # NoExpiry
           /\ now < jwt_access_token_expiry - 120
        THEN /\ jwt_ret' = [kind |-> "cached", token |-> jwt_access_token]
             /\ jwt_response' = NoTokenResponse
             /\ now' < jwt_access_token_expiry' - 120
             /\ UNCHANGED <<jwt_access_token, jwt_access_token_expiry>>
        ELSE /\ jwt_response' # NoTokenResponse
             /\ jwt_ret'.kind \in {"fetched", "raised"}
             /\ jwt_ret'.kind = "fetched" =>
                   /\ jwt_ret'.token = jwt_response'.access_token
                   /\ jwt_access_token' = jwt_ret'.token
                   /\ jwt_access_token_expiry' =
                         now' + (IF jwt_response'.expires_in = NoExpiresIn THEN 1800
                                 ELSE jwt_response'.expires_in)
             /\ jwt_ret'.kind = "raised" =>
                   UNCHANGED <<jwt_access_token, jwt_access_token_expiry>>
    ]_vars

(***************************************************************************)
(* C39, as stated: when two message events are handled concurrently and    *)
(* both handlers have finished with a reply, the shared history contains   *)
(* both user messages and both replies.                                    *)
(***************************************************************************)
C39_NoLostExchange ==
    (\A h \in Events : handlers[h].pc = "replied") =>
        \A h \in Events :
            /\ \E i \in DOMAIN conversation_messages :
                  conversation_messages[i] = HumanMessage(h)
            /\ \E i \in DOMAIN conversation_messages :
                  conversation_messages[i] = AIMessage(h)
====
